---- MODULE Spec2Model ----
(***************************************************************************)
(* A model of the news application:                                        *)
(*   - the URL resolver (decode_google_news_url / _parse_protobuf),        *)
(*   - the article fetcher (_fetch_article_text),                          *)
(*   - the HTML text extractor (_extract_text_from_html),                  *)
(*   - the search aggregator (get_news_with_content) and its fan-out,      *)
(*   - the TTL cache of backend.py and its getters,                        *)
(*   - the LLM client (FastLLMClient),                                     *)
(*   - the search screen (SearchScreen).                                   *)
(* Each component has its own specification over the shared variables;     *)
(* the variables of the other components stay at their idle values.        *)
(***************************************************************************)
EXTENDS Integers, Sequences, FiniteSets, TLC

(***************************************************************************)
(* Bounds of the model.                                                    *)
(***************************************************************************)
MaxPieces == 3       \* a decoded payload is built from at most this many pieces

MaxCands == 3        \* candidate lists of every date pattern up to this length

MaxLong == 6         \* longest run of fresh candidates in the long lists

BigMax == 7          \* a max_results above the cap of min_desired

MaxFan == 3          \* most candidates of a fan-out

PoolSize == 2        \* NEWS_FETCH_WORKERS, the size of the worker pool

(***************************************************************************)
(* Generic helpers.                                                        *)
(***************************************************************************)
Min(a, b) == IF a <= b THEN a ELSE b

Max(a, b) == IF a >= b THEN a ELSE b

RECURSIVE Pow2(_)
Pow2(n) == IF n = 0 THEN 1 ELSE 2 * Pow2(n - 1)

\* data[from:to] of Python, 0-based, half-open, clipped to the buffer
Slice(data, from, to) ==
    IF Min(to, Len(data)) <= from THEN <<>>
    ELSE SubSeq(data, from + 1, Min(to, Len(data)))

StartsWith(s, p) == Len(s) >= Len(p) /\ SubSeq(s, 1, Len(p)) = p

RECURSIVE Concat(_)
Concat(ss) == IF ss = <<>> THEN <<>> ELSE Head(ss) \o Concat(Tail(ss))

(***************************************************************************)
(* URL resolver: bytes, varints and the record scan of _parse_protobuf.    *)
(* A byte string is a sequence of 0..255; read indices are 0-based as in   *)
(* the code.  Python integers are unbounded; a varint too long for TLC's   *)
(* integers saturates at Huge, which exceeds every buffer length and keeps *)
(* the low three bits (the wire type).                                     *)
(***************************************************************************)
Huge == Pow2(28)

MaxShift == 21

VarintAdd(result, byte, shift) ==
    IF shift <= MaxShift THEN result + (byte % 128) * Pow2(shift)
    ELSE IF byte % 128 = 0 \/ result >= Huge THEN result
    ELSE result + Huge

\* the "while True" varint loop (lines 92-99 and 115-122)
RECURSIVE ReadVarint(_, _, _, _)
ReadVarint(data, idx, shift, result) ==
    IF idx >= Len(data) THEN [val |-> result, idx |-> idx]
    ELSE LET byte == data[idx + 1] IN
         IF byte < 128
         THEN [val |-> VarintAdd(result, byte, shift), idx |-> idx + 1]
         ELSE ReadVarint(data, idx + 1, shift + 7, VarintAdd(result, byte, shift))

\* wire type 0: skip the continuation bytes, then one more (lines 104-106)
RECURSIVE SkipVarint(_, _)
SkipVarint(data, idx) ==
    IF idx < Len(data) /\ data[idx + 1] >= 128 THEN SkipVarint(data, idx + 1)
    ELSE idx + 1

\* one iteration of the scan loop at read index idx < Len(data)
ScanIter(data, idx) ==
    IF idx + 1 > Len(data) THEN [kind |-> "break"]
    ELSE
    LET tag == ReadVarint(data, idx, 0, 0)
        wire_type == tag.val % 8
    IN  CASE wire_type = 0 -> [kind |-> "advance", idx |-> SkipVarint(data, tag.idx)]
          [] wire_type = 1 -> [kind |-> "advance", idx |-> tag.idx + 8]
          [] wire_type = 2 ->
                IF tag.idx >= Len(data) THEN [kind |-> "break"]
                ELSE LET size == ReadVarint(data, tag.idx, 0, 0)
                         data_start == size.idx
                         end == data_start + size.val
                     IN  IF end > Len(data) THEN [kind |-> "break"]
                         ELSE [kind |-> "field", start |-> data_start, idx |-> end]
          [] wire_type = 5 -> [kind |-> "advance", idx |-> tag.idx + 4]
          [] OTHER -> [kind |-> "break"]

(***************************************************************************)
(* bytes.decode('utf-8'): TRUE iff the byte string is well-formed UTF-8.   *)
(***************************************************************************)
IsCont(b) == b >= 128 /\ b <= 191

RECURSIVE Utf8Valid(_)
Utf8Valid(s) ==
    IF s = <<>> THEN TRUE
    ELSE LET b == s[1] n == Len(s) IN
         IF b < 128 THEN Utf8Valid(Tail(s))
         ELSE IF b >= 194 /\ b <= 223
              THEN n >= 2 /\ IsCont(s[2]) /\ Utf8Valid(SubSeq(s, 3, n))
         ELSE IF b >= 224 /\ b <= 239
              THEN /\ n >= 3
                   /\ IsCont(s[2]) /\ IsCont(s[3])
                   /\ (b = 224 => s[2] >= 160)
                   /\ (b = 237 => s[2] <= 159)
                   /\ Utf8Valid(SubSeq(s, 4, n))
         ELSE IF b >= 240 /\ b <= 244
              THEN /\ n >= 4
                   /\ IsCont(s[2]) /\ IsCont(s[3]) /\ IsCont(s[4])
                   /\ (b = 240 => s[2] >= 144)
                   /\ (b = 244 => s[2] <= 143)
                   /\ Utf8Valid(SubSeq(s, 5, n))
         ELSE FALSE

HttpPrefix == <<104, 116, 116, 112, 58, 47, 47>>          \* "http://"

HttpsPrefix == <<104, 116, 116, 112, 115, 58, 47, 47>>    \* "https://"

IsUrlHttpsOnly(field_data) ==
    Utf8Valid(field_data) /\ StartsWith(field_data, HttpsPrefix)

\* lines 132-137: the blob decodes and starts with http:// or https://
IsUrl(field_data) ==
    /\ Utf8Valid(field_data)
    /\ (StartsWith(field_data, HttpPrefix) \/ StartsWith(field_data, HttpsPrefix))

(***************************************************************************)
(* base64.urlsafe_b64decode after the padding fix of lines 169-174.  A     *)
(* token is the run of URL-safe base64 characters the regular expression   *)
(* of line 165 captures, each character given by its 6-bit value.          *)
(***************************************************************************)
RECURSIVE B64Groups(_)
B64Groups(t) ==
    IF Len(t) = 0 THEN <<>>
    ELSE IF Len(t) = 2
         THEN << (t[1] * 64 + t[2]) \div 16 >>
    ELSE IF Len(t) = 3
         THEN LET n == t[1] * 4096 + t[2] * 64 + t[3]
              IN  << n \div 1024, (n \div 4) % 256 >>
    ELSE LET n == t[1] * 262144 + t[2] * 4096 + t[3] * 64 + t[4]
         IN  << n \div 65536, (n \div 256) % 256, n % 256 >> \o B64Groups(SubSeq(t, 5, Len(t)))

\* "=" * (4 - pad) is appended; one data character too many cannot be decoded
B64Fails(token) == Len(token) % 4 = 1

B64Decode(token) == B64Groups(token)

\* The encoder the aggregator applies when it issues a wrapped URL (input side).
RECURSIVE B64Encode(_)
B64Encode(b) ==
    IF Len(b) = 0 THEN <<>>
    ELSE IF Len(b) = 1
         THEN << b[1] \div 4, (b[1] % 4) * 16 >>
    ELSE IF Len(b) = 2
         THEN LET n == b[1] * 256 + b[2]
              IN  << n \div 1024, (n \div 16) % 64, (n % 16) * 4 >>
    ELSE LET n == b[1] * 65536 + b[2] * 256 + b[3]
         IN  << n \div 262144, (n \div 4096) % 64, (n \div 64) % 64, n % 64 >>
             \o B64Encode(SubSeq(b, 4, Len(b)))

(***************************************************************************)
(* Inputs of the resolver.  A url is [shape, token]: shape "wrapped" when  *)
(* the url contains news.google.com/rss/articles/ or                       *)
(* news.google.com/articles/ (line 159), token the characters captured by  *)
(* /articles/([a-zA-Z0-9\-_]+) (empty: the expression does not match).     *)
(***************************************************************************)
UrlA == HttpPrefix \o <<97>>                 \* "http://a"

UrlB == HttpsPrefix \o <<98>>                \* "https://b"

FieldA == <<10, 8>> \o UrlA                  \* field 1, length 8, "http://a"

FieldB == <<18, 9>> \o UrlB                  \* field 2, length 9, "https://b"

ExampleUrl ==                                \* "https://example.com/a"
    HttpsPrefix \o <<101, 120, 97, 109, 112, 108, 101, 46, 99, 111, 109, 47, 97>>

ExamplePayload == <<8, 19, 34, 21>> \o ExampleUrl

Pieces ==
    { <<0>>, <<1>>, <<2>>, <<10>>, <<11>>, <<13>>, <<130>>, <<255>>, FieldA, FieldB }

PieceSeqs == UNION { [1..n -> Pieces] : n \in 0..MaxPieces }

Payloads == { Concat(ps) : ps \in PieceSeqs } \cup { ExamplePayload }

ShortPayloads == { <<>>, <<10>>, <<10, 0>>, FieldA, <<130>> }

DropLast(t, k) == SubSeq(t, 1, Len(t) - Min(k, Len(t)))

PlainUrl == [shape |-> "plain", token |-> <<>>]

DecodeInputs ==
    { PlainUrl, [shape |-> "wrapped", token |-> <<>>] }
    \cup { [shape |-> "wrapped", token |-> B64Encode(p)] : p \in Payloads }
    \cup { [shape |-> "wrapped", token |-> DropLast(B64Encode(p), k)] :
             p \in ShortPayloads, k \in 1..3 }

(***************************************************************************)
(* State.                                                                  *)
(***************************************************************************)
VARIABLES
    durl,       \* resolver: the url decode_google_news_url was called with
    dpc,        \* resolver: "start", "scan", "except", "done"
    dstack,     \* resolver: the _parse_protobuf frames, innermost last
    dresult,    \* resolver: the returned value (durl itself or a byte string)
    draised,    \* resolver: an exception left decode_google_news_url
    sin,        \* search: the call's arguments and the providers' answers
    spc,        \* search: "idle", "start", "fanout", "done"
    scalls,     \* search: the providers queried, in order (lines 817-856)
    sresults,   \* search: results, the candidates of the providers (line 815)
    sfilled,    \* search: filtered_results after the backfill (line 879)
    sbatch,     \* search: filtered_results after the truncation (line 881)
    sfut,       \* search: the futures of the fan-out, in submission order
    snews,      \* search: news_list, the records joined so far
    sreturn,    \* search: the returned list
    fin,        \* fetcher: url, existing_image and title of the outermost call
    fpc,        \* fetcher: "idle", "run", "done"
    fstack,     \* fetcher: the _fetch_article_text frames, innermost last
    fresult,    \* fetcher: the dict returned to the caller
    fraised,    \* fetcher: an exception reached the caller
    fgets,      \* fetcher: article pages requested (line 650)
    fhops,      \* fetcher: the retry hops taken, each [kind, depth]
    fdisc,      \* fetcher: the depths at which _search_ddg_fallback ran
    fpages,     \* fetcher: the responses received, each [depth, resp], in order
    fsent,      \* fetcher: the requests the session sent for article pages, each
                \*          [depth, status], status 0 when no answer came
    xin,        \* extractor: the html argument and whether bs4 was imported
    xpc,        \* extractor: "idle", "start", "noise", "boiler", "node", "collect", "join", "done"
    xlive,      \* extractor: the elements still in the soup, by position
    xnode,      \* extractor: the region chosen as node (line 214)
    xchunks,    \* extractor: chunks (line 216)
    xout,       \* extractor: the returned value
    cache,      \* backend: _cache, key -> entry
    cache_lock, \* backend: the thread holding _cache_lock, 0 when it is free
    cnow,       \* backend: time.time()
    cthr,       \* backend: thread -> the frame of the getter it runs
    clast,      \* backend: key -> the value and time of the last _set_cache
    lenv,       \* llm: the process: [sdk] (OPENAI_AVAILABLE) and [models] (len(self.models))
    lself,      \* llm: the FastLLMClient: [api_key, client, cache]
    lcall,      \* llm: the running method: [pc, op, arg, idx, err, log, hit, out]
    lops,       \* llm: methods called so far
    ustatus,    \* screen: status_label.text, as [kind, query, n]
    ulist,      \* screen: the cards of results_list, each [link, of], in order
    upayloads,  \* screen: the links of article_payloads
    ucache,     \* screen: the links of article_cache
    uthr,       \* screen: the _perform_search threads, in start order
    uclock,     \* screen: the callbacks given to Clock.schedule_once, oldest first
    urun,       \* screen: the callbacks the main thread has run, in order
    utoasts     \* screen: toasts shown

dvars == <<durl, dpc, dstack, dresult, draised>>

svars == <<sin, spc, scalls, sresults, sfilled, sbatch, sfut, snews, sreturn>>

fvars == <<fin, fpc, fstack, fresult, fraised, fgets, fhops, fdisc, fpages, fsent>>

xvars == <<xin, xpc, xlive, xnode, xchunks, xout>>

cvars == <<cache, cache_lock, cnow, cthr, clast>>

lvars == <<lenv, lself, lcall, lops>>

uvars == <<ustatus, ulist, upayloads, ucache, uthr, uclock, urun, utoasts>>

vars == <<dvars, svars, fvars, xvars, cvars, lvars, uvars>>

NoInput == [kind |-> "none"]

NoReturn == <<[kind |-> "none"]>>

DecodeIdle ==
    /\ durl = NoInput
    /\ dpc = "idle"
    /\ dstack = <<>>
    /\ dresult = [kind |-> "none"]
    /\ draised = FALSE

NoFetch == [kind |-> "none"]

FetchIdle ==
    /\ fin = NoInput
    /\ fpc = "idle"
    /\ fstack = <<>>
    /\ fresult = NoFetch
    /\ fraised = FALSE
    /\ fgets = 0
    /\ fhops = <<>>
    /\ fdisc = <<>>
    /\ fpages = <<>>
    /\ fsent = <<>>

\* the extractor returned None
NoneText == [none |-> TRUE, parts |-> <<>>, sep |-> 0]

ExtractIdle ==
    /\ xin = NoInput
    /\ xpc = "idle"
    /\ xlive = {}
    /\ xnode = "none"
    /\ xchunks = <<>>
    /\ xout = NoneText

SearchIdle ==
    /\ sin = NoInput
    /\ spc = "idle"
    /\ scalls = <<>>
    /\ sresults = <<>>
    /\ sfilled = <<>>
    /\ sbatch = <<>>
    /\ sfut = <<>>
    /\ snews = <<>>
    /\ sreturn = NoReturn

CacheIdle ==
    /\ cache = <<>>
    /\ cache_lock = 0
    /\ cnow = 0
    /\ cthr = <<>>
    /\ clast = <<>>

LlmIdle ==
    /\ lenv = NoInput
    /\ lself = NoInput
    /\ lcall = NoInput
    /\ lops = 0

ScreenIdle ==
    /\ ustatus = NoInput
    /\ ulist = <<>>
    /\ upayloads = {}
    /\ ucache = {}
    /\ uthr = <<>>
    /\ uclock = <<>>
    /\ urun = <<>>
    /\ utoasts = 0

\* a returned value: the url argument itself, or a decoded string
NoResult == [kind |-> "none"]

Unchanged(url) == [kind |-> "url", url |-> url]

Decoded(bytes) == [kind |-> "str", str |-> bytes]

(***************************************************************************)
(* decode_google_news_url and _parse_protobuf, one step per loop iteration.*)
(***************************************************************************)
Top == dstack[Len(dstack)]

Pop == SubSeq(dstack, 1, Len(dstack) - 1)

SetTopIdx(i) == [dstack EXCEPT ![Len(dstack)].idx = i]

\* lines 159-177: shape test, token match, padding, base64 decoding
DecodeEnter ==
    /\ dpc = "start"
    /\ IF durl.shape # "wrapped" \/ durl.token = <<>>
       THEN /\ dresult' = Unchanged(durl)
            /\ dpc' = "done"
            /\ UNCHANGED dstack
       ELSE IF B64Fails(durl.token)
       THEN /\ dpc' = "except"
            /\ UNCHANGED <<dstack, dresult>>
       ELSE /\ dstack' = << [data |-> B64Decode(durl.token), idx |-> 0] >>
            /\ dpc' = "scan"
            /\ UNCHANGED dresult
    /\ UNCHANGED <<durl, draised>>

\* lines 180-184: "except Exception: pass", then the url is returned
DecodeCatch ==
    /\ dpc = "except"
    /\ dresult' = Unchanged(durl)
    /\ dpc' = "done"
    /\ UNCHANGED <<durl, dstack, draised>>

ReturnNoneAsEmpty ==
    IF Len(dstack) = 1
    THEN /\ dstack' = <<>>
         /\ dresult' = Decoded(<<>>)
         /\ dpc' = "done"
    ELSE /\ dstack' = Pop
         /\ UNCHANGED <<dresult, dpc>>

\* a frame returns None (line 150); the outermost one makes line 184 return url
ReturnNone ==
    IF Len(dstack) = 1
    THEN /\ dstack' = <<>>
         /\ dresult' = Unchanged(durl)
         /\ dpc' = "done"
    ELSE /\ dstack' = Pop
         /\ UNCHANGED <<dresult, dpc>>

\* line 86: the loop condition fails
ScanExit ==
    /\ dpc = "scan"
    /\ Top.idx >= Len(Top.data)
    /\ ReturnNone
    /\ UNCHANGED <<durl, draised>>

\* lines 87, 110, 127, 148: break
ScanBreak ==
    /\ dpc = "scan"
    /\ Top.idx < Len(Top.data)
    /\ ScanIter(Top.data, Top.idx).kind = "break"
    /\ ReturnNone
    /\ UNCHANGED <<durl, draised>>

\* wire types 0, 1 and 5: the value is skipped
ScanAdvance ==
    /\ dpc = "scan"
    /\ Top.idx < Len(Top.data)
    /\ LET it == ScanIter(Top.data, Top.idx) IN
       /\ it.kind = "advance"
       /\ dstack' = SetTopIdx(it.idx)
    /\ UNCHANGED <<durl, dpc, dresult, draised>>

\* lines 129-135 and 141-142, 178-179: the blob is a URL; every frame returns it
ScanFieldUrl ==
    /\ dpc = "scan"
    /\ Top.idx < Len(Top.data)
    /\ LET it == ScanIter(Top.data, Top.idx) IN
       /\ it.kind = "field"
       /\ IsUrl(Slice(Top.data, it.start, it.idx))
       /\ dresult' = Decoded(Slice(Top.data, it.start, it.idx))
    /\ dstack' = <<>>
    /\ dpc' = "done"
    /\ UNCHANGED <<durl, draised>>

NestedFrameWholeBuffer(data, it) == [data |-> data, idx |-> 0]

NestedFrame(data, it) == [data |-> Slice(data, it.start, it.idx), idx |-> 0]

\* line 140: the blob is scanned as a nested message
ScanFieldNested ==
    /\ dpc = "scan"
    /\ Top.idx < Len(Top.data)
    /\ LET it == ScanIter(Top.data, Top.idx) IN
       /\ it.kind = "field"
       /\ ~IsUrl(Slice(Top.data, it.start, it.idx))
       /\ dstack' = Append(SetTopIdx(it.idx), NestedFrame(Top.data, it))
    /\ UNCHANGED <<durl, dpc, dresult, draised>>

InitDecode ==
    /\ durl \in DecodeInputs
    /\ dpc = "start"
    /\ dstack = <<>>
    /\ dresult = NoResult
    /\ draised = FALSE
    /\ SearchIdle
    /\ FetchIdle
    /\ ExtractIdle
    /\ CacheIdle
    /\ LlmIdle
    /\ ScreenIdle

NextDecode ==
    \/ DecodeEnter /\ UNCHANGED <<svars, fvars, xvars, cvars, lvars, uvars>>
    \/ DecodeCatch /\ UNCHANGED <<svars, fvars, xvars, cvars, lvars, uvars>>
    \/ ScanExit /\ UNCHANGED <<svars, fvars, xvars, cvars, lvars, uvars>>
    \/ ScanBreak /\ UNCHANGED <<svars, fvars, xvars, cvars, lvars, uvars>>
    \/ ScanAdvance /\ UNCHANGED <<svars, fvars, xvars, cvars, lvars, uvars>>
    \/ ScanFieldUrl /\ UNCHANGED <<svars, fvars, xvars, cvars, lvars, uvars>>
    \/ ScanFieldNested /\ UNCHANGED <<svars, fvars, xvars, cvars, lvars, uvars>>

SpecDecode == InitDecode /\ [][NextDecode]_vars

SpecDecodeFair == SpecDecode /\ WF_vars(NextDecode)

(***************************************************************************)
(* Properties of the URL resolver.                                         *)
(***************************************************************************)
Payload == B64Decode(durl.token)

Decodable == durl.shape = "wrapped" /\ durl.token # <<>> /\ ~B64Fails(durl.token)

IsString(v) ==
    \/ v = Unchanged(durl)
    \/ v.kind = "str" /\ v.str \in Seq(0..255)

\* a step of the scan that does not end it: the read index of the running
\* frame grew, and a frame that was entered holds a strictly shorter buffer
ScanProgress ==
    (dpc = "scan" /\ dpc' = "scan") =>
        \/ /\ Len(dstack') = Len(dstack)
           /\ dstack'[Len(dstack)].data = Top.data
           /\ dstack'[Len(dstack)].idx > Top.idx
        \/ /\ Len(dstack') = Len(dstack) + 1
           /\ dstack'[Len(dstack)].idx > Top.idx
           /\ Len(dstack'[Len(dstack')].data) < Len(Top.data)
        \/ Len(dstack') < Len(dstack)

\* C9: for every byte string decoded from a wrapped URL, decode_google_news_url
\* terminates and returns a string without raising: every iteration of the scan
\* strictly advances the read index, every recursive call receives a strictly
\* shorter buffer, and the call ends with a result (the url or a byte string).
C9_DecodeTerminates ==
    /\ [](draised = FALSE)
    /\ [][ScanProgress]_vars
    /\ [](dpc = "done" => IsString(dresult))
    /\ <>(dpc = "done")

\* a nested scan is running over a blob that is not UTF-8
C9_Witness == dpc = "scan" /\ Len(dstack) >= 2 /\ ~Utf8Valid(Top.data)

\* every blob a complete scan of data meets, a blob before the blobs nested
\* inside it and earlier fields before later ones
RECURSIVE BlobsFrom(_, _)
BlobsFrom(data, idx) ==
    IF idx >= Len(data) THEN <<>>
    ELSE LET it == ScanIter(data, idx) IN
         CASE it.kind = "break" -> <<>>
           [] it.kind = "advance" -> BlobsFrom(data, it.idx)
           [] it.kind = "field" ->
                LET f == Slice(data, it.start, it.idx)
                IN  <<f>> \o BlobsFrom(f, 0) \o BlobsFrom(data, it.idx)

\* the top-level records end exactly at the end of the buffer
RECURSIVE WellFormed(_, _)
WellFormed(data, idx) ==
    IF idx >= Len(data) THEN idx = Len(data)
    ELSE LET it == ScanIter(data, idx) IN
         it.kind # "break" /\ WellFormed(data, it.idx)

BeginsWithHttp(b) ==
    Utf8Valid(b) /\ (StartsWith(b, HttpPrefix) \/ StartsWith(b, HttpsPrefix))

HttpBlobs(data) == SelectSeq(BlobsFrom(data, 0), BeginsWithHttp)

\* C10: for a wrapped URL whose payload is a well-formed record stream holding a
\* blob that decodes as UTF-8 and begins with http:// or https://, the result is
\* the first such blob in scan order; the payload embedding
\* "https://example.com/a" yields exactly that string.
C10_FirstUrlReturned ==
    (dpc = "done" /\ Decodable /\ WellFormed(Payload, 0)) =>
        /\ HttpBlobs(Payload) # <<>> => dresult = Decoded(Head(HttpBlobs(Payload)))
        /\ Payload = ExamplePayload => dresult = Decoded(ExampleUrl)

\* a well-formed payload with several URL blobs has been resolved
C10_Witness ==
    /\ dpc = "done" /\ Decodable /\ WellFormed(Payload, 0)
    /\ Len(HttpBlobs(Payload)) >= 2
    /\ dresult = Decoded(UrlA)
    /\ HttpBlobs(Payload)[2] = UrlB

\* the bytes of http:// or https:// occur somewhere in the byte string
MentionsHttp(data) ==
    \E i \in 1..Len(data) :
        LET rest == SubSeq(data, i, Len(data))
        IN  StartsWith(rest, HttpPrefix) \/ StartsWith(rest, HttpsPrefix)

\* C11: decode_google_news_url returns its input unchanged when the url is not
\* a wrapped url (or carries no token), when padding or base64 decoding fails,
\* and when the payload holds no length-delimited string beginning with
\* http:// or https:// (none met by the scan, or none at all); the result is
\* always the input itself or a string beginning with http:// or https://.
C11_IdentityFallback ==
    dpc = "done" =>
        /\ durl.shape # "wrapped" => dresult = Unchanged(durl)
        /\ durl.token = <<>> => dresult = Unchanged(durl)
        /\ (durl.shape = "wrapped" /\ B64Fails(durl.token)) => dresult = Unchanged(durl)
        /\ (Decodable /\ HttpBlobs(Payload) = <<>>) => dresult = Unchanged(durl)
        /\ (Decodable /\ ~MentionsHttp(Payload)) => dresult = Unchanged(durl)
        /\ \/ dresult = Unchanged(durl)
           \/ dresult.kind = "str" /\ BeginsWithHttp(dresult.str)

\* the scan stopped at an unknown wire type in front of a record that holds
\* "http://a", and the url came back unchanged
C11_Witness ==
    /\ dpc = "done" /\ Decodable
    /\ Payload = <<11>> \o FieldA
    /\ MentionsHttp(Payload)
    /\ dresult = Unchanged(durl)

(***************************************************************************)
(* Search aggregator: get_news_with_content.                               *)
(* A candidate is [title, url, date, image, source]; a url is [page,       *)
(* slash], two urls of one page differing in the trailing slash; a date    *)
(* string is [fmt, age], age the days between the date and now.            *)
(***************************************************************************)
Null == "null"

\* seq[:n] of Python
PySliceTo(seq, n) ==
    IF n >= 0 THEN SubSeq(seq, 1, Min(n, Len(seq)))
    ELSE SubSeq(seq, 1, Max(Len(seq) + n, 0))

\* _parse_date: ISO-8601 (a trailing Z stripped), else RFC 2822, else None
ParseDate(date) ==
    IF date.fmt = "empty" THEN [kind |-> "none"]
    ELSE IF date.fmt \in {"iso", "isoZ"} THEN [kind |-> "dt", age |-> date.age]
    ELSE IF date.fmt = "rfc2822" THEN [kind |-> "dt", age |-> date.age]
    ELSE [kind |-> "none"]

CutoffOptionsNarrow == <<3, 7, 14>>

CutoffOptions == <<7, 14, 30>>

MinDesiredCap == 6

MinDesired(max_results) == Min(max_results, MinDesiredCap)

\* dt is not None and dt >= now_utc - timedelta(days=days)
InWindow(item, days) ==
    LET dt == ParseDate(item.date) IN dt.kind = "dt" /\ dt.age <= days

Matches(results, days) == SelectSeq(results, LAMBDA item : InWindow(item, days))

ReachedStrictly(n, min_desired) == n > min_desired

Reached(n, min_desired) == n >= min_desired

\* lines 868-872: the first window that reaches min_desired, else the last one
RECURSIVE WindowLoop(_, _, _)
WindowLoop(results, options, min_desired) ==
    LET filtered == Matches(results, Head(options)) IN
    IF Reached(Len(filtered), min_desired) \/ Len(options) = 1 THEN filtered
    ELSE WindowLoop(results, Tail(options), min_desired)

NoDateItems(results) ==
    SelectSeq(results, LAMBDA item : ParseDate(item.date).kind = "none")

BackfillAll(filtered, results, min_desired) ==
    IF Len(filtered) < min_desired
    THEN filtered \o NoDateItems(results)
    ELSE filtered

\* lines 875-879
Backfill(filtered, results, min_desired) ==
    IF Len(filtered) < min_desired
    THEN filtered \o PySliceTo(NoDateItems(results), min_desired - Len(filtered))
    ELSE filtered

TruncateNever(filtered, max_results) == filtered

\* line 881
Truncate(filtered, max_results) == PySliceTo(filtered, max_results)

(***************************************************************************)
(* Provider selection, lines 812-859.                                      *)
(***************************************************************************)
Sources == {"bing", "newsapi", "yandex", "google", "both", "all", "other"}

FirstProvider(source) ==
    CASE source = "newsapi" -> "newsapi"
      [] source \in {"yandex", "both"} -> "yandex"
      [] source = "google" -> "google"
      [] OTHER -> "bing"

SecondProvider(source) == IF source = "google" THEN "bing" ELSE "google"

IsMerge(source) == source \in {"both", "all"}

OverFetch == 3

FetchFloor == 50

FetchCandidates(max_results) == Max(max_results * OverFetch, FetchFloor)

ProviderLimit(source, max_results) ==
    IF IsMerge(source) THEN FetchCandidates(max_results) \div 2
    ELSE FetchCandidates(max_results)

\* a provider function: its items cut to the limit, or the exception it raises
CallProvider(answer, limit) ==
    IF answer.kind = "raise" THEN answer
    ELSE [kind |-> "ok", items |-> PySliceTo(answer.items, limit)]

\* what lines 817-856 end with, and the providers they queried
Gathered(kind, items, calls) == [kind |-> kind, items |-> items, calls |-> calls]

PrimaryEmptyAlways(items) == TRUE

\* "if not results:" (lines 820, 826, 832, 838, 855)
PrimaryEmpty(items) == items = <<>>

GatherResults(in) ==
    LET limit == ProviderLimit(in.source, in.max_results)
        p1 == FirstProvider(in.source)
        p2 == SecondProvider(in.source)
        a == CallProvider(in.first, limit)
        b == CallProvider(in.second, limit)
    IN  IF a.kind = "raise" THEN Gathered("raise", <<>>, <<p1>>)
        ELSE IF IsMerge(in.source)
        THEN IF b.kind = "raise" THEN Gathered("raise", <<>>, <<p1, p2>>)
             ELSE Gathered("ok", a.items \o b.items, <<p1, p2>>)
        ELSE IF ~PrimaryEmpty(a.items) THEN Gathered("ok", a.items, <<p1>>)
        ELSE IF b.kind = "raise" THEN Gathered("raise", <<>>, <<p1, p2>>)
        ELSE Gathered("ok", b.items, <<p1, p2>>)

(***************************************************************************)
(* Records, lines 883-925.                                                 *)
(***************************************************************************)
EmptyText == <<>>

EmptyRes == [full_text |-> EmptyText, image |-> Null]

FastItemNoImage(item) ==
    [title |-> item.title, link |-> item.url, published |-> item.date,
     source |-> item.source, description |-> item.body, image |-> Null,
     full_text |-> EmptyText]

\* lines 886-894
FastItem(item) ==
    [title |-> item.title, link |-> item.url, published |-> item.date,
     source |-> item.source, description |-> item.body, image |-> item.image,
     full_text |-> EmptyText]

\* lines 913-922
NewsItem(item, res) ==
    [title |-> item.title, link |-> item.url, published |-> item.date,
     source |-> item.source, description |-> item.body,
     image |-> IF item.image # Null THEN item.image ELSE res.image,
     full_text |-> res.full_text]

JoinResultKeepsText(fut) ==
    IF fut.state = "raised" THEN [full_text |-> <<"error">>, image |-> Null]
    ELSE fut.res

\* lines 908-911
JoinResult(fut) == IF fut.state = "raised" THEN EmptyRes ELSE fut.res

\* what _fetch_article_text(url, existing_image, 0, title) can return
FetchOutcomes(item) ==
    { [full_text |-> <<"text", item.url>>, image |-> im] :
        im \in IF item.image # Null THEN {item.image, Null} ELSE {"scraped", Null} }

Pending == [state |-> "pending", res |-> EmptyRes]

Running(futs) == { i \in 1..Len(futs) : futs[i].state = "running" }

(***************************************************************************)
(* get_news_with_content, the synchronous part in one step.                *)
(***************************************************************************)
SearchEmptyQuery ==
    /\ spc = "start"
    /\ sin.query = ""
    /\ sreturn' = <<>>
    /\ spc' = "done"
    /\ UNCHANGED <<sin, scalls, sresults, sfilled, sbatch, sfut, snews>>

\* lines 857-859: a provider raised
SearchProviderError ==
    /\ spc = "start"
    /\ sin.query # ""
    /\ GatherResults(sin).kind = "raise"
    /\ scalls' = GatherResults(sin).calls
    /\ sreturn' = <<>>
    /\ spc' = "done"
    /\ UNCHANGED <<sin, sresults, sfilled, sbatch, sfut, snews>>

Filtered(results, max_results) ==
    Backfill(WindowLoop(results, CutoffOptions, MinDesired(max_results)),
             results, MinDesired(max_results))

SearchFiltered ==
    /\ sin.query # ""
    /\ GatherResults(sin).kind = "ok"
    /\ scalls' = GatherResults(sin).calls
    /\ sresults' = GatherResults(sin).items
    /\ sfilled' = Filtered(sresults', sin.max_results)
    /\ sbatch' = Truncate(sfilled', sin.max_results)
    /\ IF sin.fetch_content
       THEN /\ sfut' = [i \in 1..Len(sbatch') |-> Pending]
            /\ spc' = "fanout"
            /\ UNCHANGED <<snews, sreturn>>
       ELSE /\ sreturn' = [i \in 1..Len(sbatch') |-> FastItem(sbatch'[i])]
            /\ spc' = "done"
            /\ UNCHANGED <<sfut, snews>>
    /\ UNCHANGED sin

\* fetch_content = False, lines 883-896
SearchFast == spc = "start" /\ ~sin.fetch_content /\ SearchFiltered

\* lines 899-904: every fetch is submitted to the pool
SearchSubmit == spc = "start" /\ sin.fetch_content /\ SearchFiltered

\* the pool starts the oldest queued fetch when a worker is free
WorkerStart ==
    /\ spc = "fanout"
    /\ Cardinality(Running(sfut)) < PoolSize
    /\ \E i \in 1..Len(sfut) :
        /\ sfut[i].state = "pending"
        /\ \A j \in 1..(i - 1) : sfut[j].state # "pending"
        /\ sfut' = [sfut EXCEPT ![i].state = "running"]
    /\ UNCHANGED <<sin, scalls, spc, sresults, sfilled, sbatch, snews, sreturn>>

WorkerReturn ==
    /\ spc \in {"fanout", "done"}
    /\ \E i \in Running(sfut) : \E res \in FetchOutcomes(sbatch[i]) :
        sfut' = [sfut EXCEPT ![i] = [state |-> "done", res |-> res]]
    /\ UNCHANGED <<sin, scalls, spc, sresults, sfilled, sbatch, snews, sreturn>>

WorkerRaise ==
    /\ spc \in {"fanout", "done"}
    /\ \E i \in Running(sfut) :
        sfut' = [sfut EXCEPT ![i].state = "raised"]
    /\ UNCHANGED <<sin, scalls, spc, sresults, sfilled, sbatch, snews, sreturn>>

\* lines 907-923: fut.result() of the next future, in submission order
JoinNext ==
    /\ spc = "fanout"
    /\ Len(snews) < Len(sbatch)
    /\ LET j == Len(snews) + 1 IN
       /\ sfut[j].state \in {"done", "raised"}
       /\ snews' = Append(snews, NewsItem(sbatch[j], JoinResult(sfut[j])))
    /\ UNCHANGED <<sin, scalls, spc, sresults, sfilled, sbatch, sfut, sreturn>>

\* line 925
SearchReturn ==
    /\ spc = "fanout"
    /\ Len(snews) = Len(sbatch)
    /\ sreturn' = snews
    /\ spc' = "done"
    /\ UNCHANGED <<sin, scalls, sresults, sfilled, sbatch, sfut, snews>>

(***************************************************************************)
(* Inputs of the aggregator.                                               *)
(***************************************************************************)
Fresh == [fmt |-> "iso", age |-> 1]

Week == [fmt |-> "rfc2822", age |-> 7]

Fortnight == [fmt |-> "isoZ", age |-> 14]

Month == [fmt |-> "rfc2822", age |-> 30]

Stale == [fmt |-> "iso", age |-> 40]

Garbled == [fmt |-> "text", age |-> 0]

Blank == [fmt |-> "empty", age |-> 0]

DateChoices == {Fresh, Week, Fortnight, Month, Stale, Garbled, Blank}

Plain(page) == [page |-> page, slash |-> FALSE]

Slashed(page) == [page |-> page, slash |-> TRUE]

Item(tag, i, url, date, image) ==
    [title |-> <<tag, i>>, url |-> url, date |-> date, image |-> image, source |-> tag,
     body |-> <<"body", tag, i>>]

Ok(items) == [kind |-> "ok", items |-> items]

Raise == [kind |-> "raise"]

Rep(x, n) == [i \in 1..n |-> x]

\* every date pattern over distinct urls
DatedLists(tag) ==
    UNION { { [i \in 1..n |-> Item(tag, i, Plain(i), ds[i], Null)] :
                ds \in [1..n -> DateChoices] } : n \in 0..MaxCands }

LongPatterns ==
    { Rep(Fresh, a) \o Rep(Fortnight, b) \o Rep(Garbled, c) :
        a \in (MaxLong - 1)..MaxLong, b \in 0..1, c \in 0..2 }

LongLists(tag) ==
    { [i \in 1..Len(ds) |-> Item(tag, i, Plain(i), ds[i], Null)] : ds \in LongPatterns }

\* short lists over two pages, the first page in two spellings
UrlChoices == {Plain(1), Slashed(1), Plain(2)}

OverlapLists(tag) ==
    UNION { { [i \in 1..n |-> Item(tag, i, us[i], Fresh, Null)] :
                us \in [1..n -> UrlChoices] } : n \in 0..2 }

ImageLists(tag) ==
    UNION { { [i \in 1..n |-> Item(tag, i, Plain(i), Fresh, ims[i])] :
                ims \in [1..n -> {Null, "img"}] } : n \in 0..MaxFan }

MaxResultsChoices == (0..MaxCands) \cup {BigMax}

Input(query, source, max_results, fetch_content, first, second) ==
    [query |-> query, source |-> source, max_results |-> max_results,
     fetch_content |-> fetch_content, first |-> first, second |-> second]

SecondAnswers(source) ==
    { Ok(l) : l \in OverlapLists(SecondProvider(source)) }
    \cup IF SecondProvider(source) = "google" THEN {Raise} ELSE {}

SearchInputs ==
    { Input("", "bing", 1, FALSE, Ok(<<>>), Ok(<<>>)),
      Input("q", "google", 1, FALSE, Raise, Ok(<<>>)) }
    \cup { Input("q", "bing", mr, FALSE, Ok(l), Ok(<<>>)) :
             l \in DatedLists("bing") \cup LongLists("bing"), mr \in MaxResultsChoices }
    \cup UNION { { Input("q", src, BigMax, FALSE, Ok(l), second) :
                     l \in OverlapLists(FirstProvider(src)),
                     second \in SecondAnswers(src) } : src \in Sources }
    \cup { Input("q", "newsapi", mr, fc, Ok(l), Ok(<<>>)) :
             l \in ImageLists("newsapi"), mr \in {MaxFan - 1, MaxFan}, fc \in BOOLEAN }

InitSearch ==
    /\ sin \in SearchInputs
    /\ spc = "start"
    /\ scalls = <<>>
    /\ sresults = <<>>
    /\ sfilled = <<>>
    /\ sbatch = <<>>
    /\ sfut = <<>>
    /\ snews = <<>>
    /\ sreturn = NoReturn
    /\ DecodeIdle
    /\ FetchIdle
    /\ ExtractIdle
    /\ CacheIdle
    /\ LlmIdle
    /\ ScreenIdle

NextSearch ==
    \/ SearchEmptyQuery /\ UNCHANGED <<dvars, fvars, xvars, cvars, lvars, uvars>>
    \/ SearchProviderError /\ UNCHANGED <<dvars, fvars, xvars, cvars, lvars, uvars>>
    \/ SearchFast /\ UNCHANGED <<dvars, fvars, xvars, cvars, lvars, uvars>>
    \/ SearchSubmit /\ UNCHANGED <<dvars, fvars, xvars, cvars, lvars, uvars>>
    \/ WorkerStart /\ UNCHANGED <<dvars, fvars, xvars, cvars, lvars, uvars>>
    \/ WorkerReturn /\ UNCHANGED <<dvars, fvars, xvars, cvars, lvars, uvars>>
    \/ WorkerRaise /\ UNCHANGED <<dvars, fvars, xvars, cvars, lvars, uvars>>
    \/ JoinNext /\ UNCHANGED <<dvars, fvars, xvars, cvars, lvars, uvars>>
    \/ SearchReturn /\ UNCHANGED <<dvars, fvars, xvars, cvars, lvars, uvars>>

SpecSearch == InitSearch /\ [][NextSearch]_vars

(***************************************************************************)
(* Properties of the search aggregator.                                    *)
(***************************************************************************)
Returned == spc = "done"

IsDated(item) == item.date.fmt \in {"iso", "isoZ", "rfc2822"}

AgeOf(item) == item.date.age

Within(results, days) ==
    SelectSeq(results, LAMBDA item : IsDated(item) /\ AgeOf(item) <= days)

DatedPart(items) == SelectSeq(items, IsDated)

UndatedPart(items) == SelectSeq(items, LAMBDA item : ~IsDated(item))

Wanted == Min(sin.max_results, 6)

Titles(items) == [i \in 1..Len(items) |-> items[i].title]

\* C3: a fan-out of N fetches returns N records in candidate order, record i
\* with the metadata of candidate i; a record whose fetch raised has empty
\* full_text, every other record has the text its own fetch returned.
C3_BatchJoin ==
    (Returned /\ sin.fetch_content) =>
        /\ Len(sreturn) = Len(sfut)
        /\ Len(sreturn) = Len(sbatch)
        /\ \A i \in 1..Len(sreturn) :
            /\ sreturn[i].title = sbatch[i].title
            /\ sreturn[i].link = sbatch[i].url
            /\ sreturn[i].published = sbatch[i].date
            /\ sreturn[i].source = sbatch[i].source
            /\ sfut[i].state \in {"done", "raised"}
            /\ sfut[i].state = "raised" => sreturn[i].full_text = EmptyText
            /\ sfut[i].state = "done" =>
                /\ sreturn[i].full_text = sfut[i].res.full_text
                /\ sreturn[i].full_text = <<"text", sbatch[i].url>>

\* three fetches were joined, the middle one raised
C3_Witness ==
    /\ Returned /\ sin.fetch_content
    /\ Len(sreturn) = 3
    /\ sfut[1].state = "done" /\ sfut[2].state = "raised" /\ sfut[3].state = "done"

Normalize(url) == url.page

\* C4: the returned list never holds two entries with the same normalized URL;
\* the entry kept for a URL is the first candidate seen with it.
C4_NoDuplicateUrls ==
    (Returned /\ sreturn # NoReturn) =>
        /\ \A i, j \in 1..Len(sreturn) :
            i # j => Normalize(sreturn[i].link) # Normalize(sreturn[j].link)
        /\ \A i \in 1..Len(sreturn) : \E k \in 1..Len(sresults) :
            /\ sresults[k].title = sreturn[i].title
            /\ \A m \in 1..(k - 1) :
                Normalize(sresults[m].url) # Normalize(sresults[k].url)

\* C5 as stated: the cutoffs are 3, 7, 14 (optionally 30) days, and when at least
\* min(max_results, 6) candidates are at most 3 days old no candidate older than
\* 3 days is returned.
C5_ThreeDayWindowFirst ==
    Returned =>
        (Len(Within(sresults, 3)) >= Wanted =>
            \A i \in 1..Len(sreturn) :
                IsDated([date |-> sreturn[i].published])
                /\ sreturn[i].published.age <= 3)

\* C5 amended: the cutoffs are 7, 14 and 30 days, tried in that order; the first
\* one whose match count reaches min(max_results, 6) decides which dated
\* candidates pass, and when at least min(max_results, 6) candidates are at most
\* 7 days old no candidate older than 7 days (and no undated one) is returned.
C5_WindowOrder ==
    Returned =>
        /\ \A k \in 1..3 :
            LET windows == <<7, 14, 30>> IN
            ( /\ Len(Within(sresults, windows[k])) >= Wanted
              /\ \A j \in 1..(k - 1) : Len(Within(sresults, windows[j])) < Wanted )
            => \A c \in 1..Len(sresults) :
                 IsDated(sresults[c]) =>
                    ( (\E i \in 1..Len(sfilled) : sfilled[i].title = sresults[c].title)
                      <=> AgeOf(sresults[c]) <= windows[k] )
        /\ Len(Within(sresults, 7)) >= Wanted =>
            \A i \in 1..Len(sreturn) :
                IsDated([date |-> sreturn[i].published])
                /\ sreturn[i].published.age <= 7

\* enough candidates of the last week, an older dated one left out
C5_Witness ==
    /\ Returned /\ sreturn # NoReturn /\ Len(sreturn) >= 2
    /\ Len(Within(sresults, 7)) >= Wanted
    /\ \E c \in 1..Len(sresults) : IsDated(sresults[c]) /\ AgeOf(sresults[c]) > 7
    /\ \E i \in 1..Len(sreturn) : sreturn[i].published.age > 3

\* C6: the dated part of the filter's result is exactly the candidates inside
\* the narrowest window whose match count reaches min_desired, in candidate
\* order; when no window reaches it, those inside the widest window; a dated
\* candidate older than the widest window is never kept.
C6_NarrowestWindow ==
    Returned =>
        /\ \E k \in 1..Len(CutoffOptions) :
            /\ DatedPart(sfilled) = Within(sresults, CutoffOptions[k])
            /\ \A j \in 1..(k - 1) : Len(Within(sresults, CutoffOptions[j])) < Wanted
            /\ k < Len(CutoffOptions) => Len(Within(sresults, CutoffOptions[k])) >= Wanted
        /\ \A i \in 1..Len(sfilled) :
            IsDated(sfilled[i]) => AgeOf(sfilled[i]) <= CutoffOptions[Len(CutoffOptions)]

\* the 7-day window fell short, the 14-day window was used, older ones left out
C6_Witness ==
    /\ Returned
    /\ Len(Within(sresults, 7)) < Wanted
    /\ Len(Within(sresults, 14)) >= Wanted
    /\ DatedPart(sfilled) = Within(sresults, 14)
    /\ Len(Within(sresults, 14)) >= 2
    /\ Len(DatedPart(sresults)) > Len(DatedPart(sfilled))

\* C7: undated candidates are only backfill: they follow the dated matches, in
\* candidate order, exactly min(undated, min_desired - dated) of them, and only
\* when the dated matches are fewer than min_desired.
C7_Backfill ==
    Returned =>
        LET dated == DatedPart(sfilled)
            undated == UndatedPart(sfilled)
            pool == UndatedPart(sresults)
        IN  /\ sfilled = dated \o undated
            /\ undated # <<>> => Len(dated) < Wanted
            /\ Len(dated) >= Wanted => undated = <<>>
            /\ Len(dated) < Wanted =>
                /\ Len(undated) = Min(Len(pool), Wanted - Len(dated))
                /\ undated = SubSeq(pool, 1, Len(undated))

\* a backfill that took some undated candidates and left others
C7_Witness ==
    /\ Returned
    /\ DatedPart(sfilled) # <<>>
    /\ UndatedPart(sfilled) # <<>>
    /\ Len(UndatedPart(sfilled)) < Len(UndatedPart(sresults))

\* C8: at most max_results records are returned, the first max_results entries
\* of the filtered and backfilled list, in order, in both fetch_content modes.
C8_Truncated ==
    (Returned /\ sin.max_results >= 0) =>
        /\ Len(sreturn) <= sin.max_results
        /\ Len(sreturn) = Min(sin.max_results, Len(sfilled))
        /\ \A i \in 1..Len(sreturn) :
            /\ sreturn[i].title = sfilled[i].title
            /\ sreturn[i].link = sfilled[i].url

\* a fan-out of a list that was cut to max_results
C8_Witness ==
    /\ Returned /\ sin.fetch_content
    /\ Len(sfilled) > sin.max_results
    /\ Len(sreturn) = sin.max_results
    /\ sin.max_results >= 2

\* the items a provider hands over: its answer cut to the requested number
Handed(answer) == PySliceTo(answer.items, ProviderLimit(sin.source, sin.max_results))

\* C20: in a single-primary mode (bing, newsapi, yandex, google, unknown) the
\* secondary provider is queried if and only if the primary returned no
\* result, and the candidates are then the secondary's; with at least one
\* result of the primary the secondary is never queried; in the merge modes
\* (both, all) both providers are queried and the candidates are the first
\* provider's results followed by the second's.
C20_ProviderRouting ==
    (spc # "start" /\ sin.query # "" /\ sin.first.kind = "ok") =>
        /\ Len(scalls) \in {1, 2}
        /\ Len(scalls) = 2 => scalls[1] # scalls[2]
        /\ sin.source \notin {"both", "all"} =>
              /\ Len(scalls) = 2 <=> Handed(sin.first) = <<>>
              /\ Len(scalls) = 1 => sresults = Handed(sin.first)
              /\ (Len(scalls) = 2 /\ sin.second.kind = "ok") => sresults = Handed(sin.second)
        /\ sin.source \in {"both", "all"} =>
              /\ Len(scalls) = 2
              /\ sin.second.kind = "ok" => sresults = Handed(sin.first) \o Handed(sin.second)

\* yandex returned nothing, google was asked and its results are the candidates
C20_Witness ==
    /\ spc = "done"
    /\ sin.source = "yandex"
    /\ sin.first = Ok(<<>>)
    /\ scalls = <<"yandex", "google">>
    /\ sresults # <<>>
    /\ sresults = sin.second.items

\* C21: with fetch_content = false nothing is submitted to the worker pool and
\* no fetch runs; every returned record has the empty full_text and the
\* provider's title, link, published, source, description and image unchanged.
C21_FastPath ==
    (sin # NoInput /\ ~sin.fetch_content) =>
        /\ sfut = <<>>
        /\ snews = <<>>
        /\ spc \in {"start", "done"}
        /\ (Returned /\ sin.query # "" /\ sin.first.kind = "ok") =>
            /\ Len(sreturn) = Len(sbatch)
            /\ \A i \in 1..Len(sreturn) :
                /\ sreturn[i].full_text = EmptyText
                /\ sreturn[i].title = sbatch[i].title
                /\ sreturn[i].link = sbatch[i].url
                /\ sreturn[i].published = sbatch[i].date
                /\ sreturn[i].source = sbatch[i].source
                /\ sreturn[i].description = sbatch[i].body
                /\ sreturn[i].image = sbatch[i].image

\* a fast search returned two records, one with the provider's image
C21_Witness ==
    /\ Returned /\ ~sin.fetch_content
    /\ Len(sreturn) >= 2
    /\ \E i \in 1..Len(sreturn) : sreturn[i].image = "img"
    /\ \E i \in 1..Len(sreturn) : sreturn[i].image = Null
    /\ sfut = <<>>

\* C29: provider failures are isolated: in a merge mode a network failure of
\* one provider keeps the candidates the other provider returned, in the
\* google-primary mode a failure of the primary still lets the secondary be
\* queried, and the candidate list is empty only when no queried provider
\* produced a candidate.
C29_ProviderFailureIsolated ==
    (spc = "done" /\ sin.query # "") =>
        /\ ( /\ sin.source \in {"both", "all"}
             /\ sin.first.kind = "ok" /\ sin.second.kind = "raise" )
           => sresults = Handed(sin.first)
        /\ (sin.source = "google" /\ sin.first.kind = "raise")
           => scalls = <<"google", "bing">>
        /\ sresults = <<>> =>
              /\ sin.first.kind = "ok" => Handed(sin.first) = <<>>
              /\ (Len(scalls) = 2 /\ sin.second.kind = "ok") => Handed(sin.second) = <<>>

(***************************************************************************)
(* HTML text extractor: _extract_text_from_html.                           *)
(* A document is the sequence of its text-bearing elements in document     *)
(* order, each [region, tag, len]: region the block that encloses it       *)
(* ("body" when it stands directly in the body), tag its own tag ("div"    *)
(* for text outside every collected tag), len the length of its text after *)
(* get_text(strip=True).  The empty document is the empty string.  A       *)
(* returned text is [none, parts, sep]: the positions of the elements      *)
(* whose texts are joined, and the length of the separator.                *)
(***************************************************************************)
MaxElems == 3        \* longest document

MinChunkLen == 40

NoiseTags == {"script", "style", "noscript", "svg", "canvas"}

BoilerplateTags == {"header", "footer", "nav", "aside", "form"}

CollectedTags == {"h1", "h2", "h3", "p", "li"}

Elem(region, tag, len) == [region |-> region, tag |-> tag, len |-> len]

Elems ==
    { Elem("nav", "li", 40), Elem("nav", "div", 18), Elem("script", "div", 40),
      Elem("article", "p", 10), Elem("article", "p", MinChunkLen - 1),
      Elem("article", "p", MinChunkLen), Elem("article", "div", 0),
      Elem("article", "h4", 45), Elem("article", "blockquote", 60),
      Elem("main", "p", MinChunkLen), Elem("body", "p", MinChunkLen),
      Elem("body", "div", 10), Elem("body", "li", 5) }

\* the elements of one block stand together
Contiguous(doc, r) ==
    \A i, j, k \in 1..Len(doc) :
        (i < j /\ j < k /\ doc[i].region = r /\ doc[k].region = r) => doc[j].region = r

Docs ==
    { doc \in UNION { [1..n -> Elems] : n \in 0..MaxElems } :
        \A r \in {"nav", "script", "article", "main"} : Contiguous(doc, r) }

ExtractInputs ==
    { [html |-> doc, bs4 |-> TRUE] : doc \in Docs }
    \cup { [html |-> doc, bs4 |-> FALSE] : doc \in { d \in Docs : Len(d) <= 1 } }

Positions(n) == [i \in 1..n |-> i]

\* the positions of doc, in document order, that satisfy Keep
Select(doc, Keep(_)) == SelectSeq(Positions(Len(doc)), Keep)

\* lines 203-212: every tag named in tags is decomposed with what it holds
Decompose(doc, live, tags) == { i \in live : doc[i].region \notin tags }

HasRegion(doc, live, r) == \E i \in live : doc[i].region = r

\* line 214: soup.find("article") or soup.find("main") or soup.body or soup
PickNode(doc, live) ==
    IF HasRegion(doc, live, "article") THEN "article"
    ELSE IF HasRegion(doc, live, "main") THEN "main"
    ELSE "body"

InNode(doc, live, node, i) ==
    i \in live /\ (node = "body" \/ doc[i].region = node)

\* lines 217-220
Chunks(doc, live, node) ==
    Select(doc, LAMBDA i : /\ InNode(doc, live, node, i)
                           /\ doc[i].tag \in CollectedTags
                           /\ doc[i].len > 0
                           /\ doc[i].len >= MinChunkLen)

\* line 226: node.get_text("\n", strip=True)
RawText(doc, live, node) ==
    [none |-> FALSE,
     parts |-> Select(doc, LAMBDA i : InNode(doc, live, node, i) /\ doc[i].len > 0),
     sep |-> 1]

TextOrEmpty(txt) == txt

\* line 227: txt or None
TextOrNone(txt) == IF txt.parts = <<>> THEN NoneText ELSE txt

\* lines 194-200
ExtractStart ==
    /\ xpc = "start"
    /\ IF xin.html = <<>> \/ ~xin.bs4
       THEN /\ xout' = NoneText
            /\ xpc' = "done"
            /\ UNCHANGED xlive
       ELSE /\ xlive' = 1..Len(xin.html)
            /\ xpc' = "noise"
            /\ UNCHANGED xout
    /\ UNCHANGED <<xin, xnode, xchunks>>

\* lines 203-207
ExtractDropNoise ==
    /\ xpc = "noise"
    /\ xlive' = Decompose(xin.html, xlive, NoiseTags)
    /\ xpc' = "boiler"
    /\ UNCHANGED <<xin, xnode, xchunks, xout>>

\* lines 208-212
ExtractDropBoilerplate ==
    /\ xpc = "boiler"
    /\ xlive' = Decompose(xin.html, xlive, BoilerplateTags)
    /\ xpc' = "node"
    /\ UNCHANGED <<xin, xnode, xchunks, xout>>

\* line 214
ExtractPickNode ==
    /\ xpc = "node"
    /\ xnode' = PickNode(xin.html, xlive)
    /\ xpc' = "collect"
    /\ UNCHANGED <<xin, xlive, xchunks, xout>>

\* lines 216-220
ExtractCollect ==
    /\ xpc = "collect"
    /\ xchunks' = Chunks(xin.html, xlive, xnode)
    /\ xpc' = "join"
    /\ UNCHANGED <<xin, xlive, xnode, xout>>

\* lines 222-223
ExtractReturnChunks ==
    /\ xpc = "join"
    /\ xchunks # <<>>
    /\ xout' = [none |-> FALSE, parts |-> xchunks, sep |-> 2]
    /\ xpc' = "done"
    /\ UNCHANGED <<xin, xlive, xnode, xchunks>>

\* lines 225-227
ExtractReturnFallback ==
    /\ xpc = "join"
    /\ xchunks = <<>>
    /\ xout' = TextOrNone(RawText(xin.html, xlive, xnode))
    /\ xpc' = "done"
    /\ UNCHANGED <<xin, xlive, xnode, xchunks>>

InitExtract ==
    /\ xin \in ExtractInputs
    /\ xpc = "start"
    /\ xlive = {}
    /\ xnode = "none"
    /\ xchunks = <<>>
    /\ xout = NoneText
    /\ DecodeIdle
    /\ SearchIdle
    /\ FetchIdle
    /\ CacheIdle
    /\ LlmIdle
    /\ ScreenIdle

NextExtract ==
    \/ ExtractStart /\ UNCHANGED <<dvars, svars, fvars, cvars, lvars, uvars>>
    \/ ExtractDropNoise /\ UNCHANGED <<dvars, svars, fvars, cvars, lvars, uvars>>
    \/ ExtractDropBoilerplate /\ UNCHANGED <<dvars, svars, fvars, cvars, lvars, uvars>>
    \/ ExtractPickNode /\ UNCHANGED <<dvars, svars, fvars, cvars, lvars, uvars>>
    \/ ExtractCollect /\ UNCHANGED <<dvars, svars, fvars, cvars, lvars, uvars>>
    \/ ExtractReturnChunks /\ UNCHANGED <<dvars, svars, fvars, cvars, lvars, uvars>>
    \/ ExtractReturnFallback /\ UNCHANGED <<dvars, svars, fvars, cvars, lvars, uvars>>

SpecExtract == InitExtract /\ [][NextExtract]_vars

SpecExtractFair == SpecExtract /\ WF_vars(NextExtract)

(***************************************************************************)
(* Properties of the extractor.                                            *)
(***************************************************************************)
RECURSIVE SumLen(_, _)
SumLen(doc, parts) ==
    IF parts = <<>> THEN 0 ELSE doc[Head(parts)].len + SumLen(doc, Tail(parts))

\* the length of the returned string
OutLen(doc, out) ==
    IF out.parts = <<>> THEN 0
    ELSE SumLen(doc, out.parts) + out.sep * (Len(out.parts) - 1)

IsNavText(e) == e.region = "nav" /\ e.len > 0

IsArticleParagraph(e) == e.region = "article" /\ e.tag = "p"

Ascending(parts) == \A i, j \in 1..Len(parts) : i < j => parts[i] < parts[j]

PartSet(out) == { out.parts[i] : i \in 1..Len(out.parts) }

\* C13: for a document with a nav block holding text and an article block whose
\* paragraphs all have at least 10 characters, the returned text holds none of
\* the nav's text and the text of every one of these paragraphs, in document
\* order, whatever their lengths above 10 are.
C13_ArticleParagraphsKept ==
    LET doc == xin.html
        paragraphs == { i \in 1..Len(doc) : IsArticleParagraph(doc[i]) }
    IN  ( /\ xpc = "done"
          /\ xin.bs4
          /\ \E i \in 1..Len(doc) : IsNavText(doc[i])
          /\ paragraphs # {}
          /\ \A i \in paragraphs : doc[i].len >= 10 )
        => /\ ~xout.none
           /\ \A i \in PartSet(xout) : ~IsNavText(doc[i])
           /\ paragraphs \subseteq PartSet(xout)
           /\ Ascending(xout.parts)

\* C25: within the chosen root the extractor collects every heading of levels
\* 1 to 6, paragraph, list item, blockquote and code/pre element in document
\* order and keeps each one whose trimmed text has at least 10 characters;
\* only when none is kept does it return the whole text of the root.
C25_CollectedFragments ==
    (xpc = "done" /\ xin.bs4 /\ xin.html # <<>>) =>
        LET doc == xin.html
            live == Decompose(doc, Decompose(doc, 1..Len(doc), NoiseTags), BoilerplateTags)
            node == PickNode(doc, live)
            kept == SelectSeq(Positions(Len(doc)),
                        LAMBDA i : /\ InNode(doc, live, node, i)
                                   /\ doc[i].tag \in {"h1", "h2", "h3", "h4", "h5", "h6", "p",
                                                      "li", "blockquote", "code", "pre"}
                                   /\ doc[i].len >= 10)
        IN  IF kept # <<>>
            THEN ~xout.none /\ xout.parts = kept
            ELSE xout = TextOrNone(RawText(doc, live, node))

(***************************************************************************)
(* Article fetcher: _fetch_article_text.                                   *)
(* A url is [name, printable]: printable is FALSE when print() cannot      *)
(* encode the string for stdout (a lone surrogate, or a character outside  *)
(* the console's code page).  A text is [none, len, extra]: len its        *)
(* stripped length, extra what the re-joining of lines 735-737 adds.       *)
(* A full_text is [kind, len].                                             *)
(***************************************************************************)
ShortThreshold == 800

ConsentSizeLimit == 50000

StatusSentinelLen == 20

ConsentSentinelLen == 77

NoExtractSentinelLen == 53

ErrorPrefixLen == 28

\* lengths of str(e) for the exceptions of one run
ErrorMessageLens == {0, 40}

UrlArticle == [name |-> "a", printable |-> TRUE]

UrlBad == [name |-> "bad", printable |-> FALSE]

UrlWrapped == [name |-> "news.google.com/rss/articles/x", printable |-> TRUE]

UrlPublisher == [name |-> "publisher", printable |-> TRUE]

UrlOther == [name |-> "other", printable |-> TRUE]

UrlAlt == [name |-> "alt", printable |-> TRUE]

UrlConsentAlt == [name |-> "consent.google.com/alt", printable |-> TRUE]

\* line 642: the resolver's answer, the decoded url or the url itself
DecodeGoogleNewsUrl(url) == IF url = UrlWrapped THEN UrlPublisher ELSE url

\* "consent.google.com" in alt_url or "news.google.com" in alt_url
IsGoogleHost(url) == url \in {UrlWrapped, UrlConsentAlt}

TitlePrintable(title) == title # "bad title"

Text(len, extra) == [none |-> FALSE, len |-> len, extra |-> extra]

NoText == [none |-> TRUE, len |-> 0, extra |-> 0]

\* len((text or "").strip())
TextLen(text) == IF text.none THEN 0 ELSE text.len

StatusSentinel == [kind |-> "status", len |-> StatusSentinelLen]

ConsentSentinel == [kind |-> "consent", len |-> ConsentSentinelLen]

NoExtractSentinel == [kind |-> "noextract", len |-> NoExtractSentinelLen]

\* line 790: the prefix and str(e)
ErrorSentinel(n) == [kind |-> "exception", len |-> ErrorPrefixLen + n]

Failure(full_text) == [full_text |-> full_text, image |-> Null]

\* lines 661-667
IsConsentPage(resp) ==
    \/ resp.consent_url
    \/ resp.page.continue_google
    \/ resp.page.cookies_accept /\ resp.page.size < ConsentSizeLimit

HopAlways(depth) == TRUE

\* line 687
HopAllowed(depth) == depth < 1

\* lines 686-690
HopWanted(depth, text, page) ==
    /\ HopAllowed(depth)
    /\ (text.none \/ TextLen(text) < ShortThreshold)
    /\ page.html

\* lines 692-715: the href of the canonical link, og:url or source anchor
SourceUrl(page, url) ==
    CASE page.link = "same" -> [kind |-> "abs", url |-> url]
      [] page.link = "relative" -> [kind |-> "rel", url |-> url]
      [] page.link = "other" -> [kind |-> "abs", url |-> UrlOther]
      [] page.link = "unprintable" -> [kind |-> "abs", url |-> UrlBad]
      [] OTHER -> [kind |-> "none"]

\* line 717: source_url and source_url != url
HopTaken(source, url) ==
    source.kind # "none" /\ ~(source.kind = "abs" /\ source.url = url)

\* lines 732-737
FormattedText(text) ==
    IF text.none THEN NoExtractSentinel
    ELSE [kind |-> "text", len |-> text.len + text.extra]

(***************************************************************************)
(* Images.  A meta tag is [present, order, content]: order "key_first"     *)
(* when the property/name attribute stands before content, the order the   *)
(* regular expressions of lines 746-756 require, "content_first"           *)
(* otherwise.  The first <img src> of the page is a string, "" when the    *)
(* page has none.  Relative urls begin with "/".                           *)
(***************************************************************************)
OgAbs == "https://cdn/og.jpg"

OgRel == "/og.jpg"

TwAbs == "https://cdn/tw.jpg"

TwRel == "/tw.jpg"

InRel == "/in.jpg"

\* urljoin(response.url, href), response.url being a page of https://site
Urljoin(href) ==
    CASE href = OgRel -> "https://site/og.jpg"
      [] href = TwRel -> "https://site/tw.jpg"
      [] href = InRel -> "https://site/in.jpg"
      [] OTHER -> href

OgUrls == {OgAbs, OgRel, Urljoin(OgRel)}

TwUrls == {TwAbs, TwRel, Urljoin(TwRel)}

InUrls == {InRel, Urljoin(InRel)}

Meta(order, content) == [present |-> TRUE, order |-> order, content |-> content]

NoMeta == [present |-> FALSE, order |-> "key_first", content |-> ""]

\* lines 746-762: og:image, else twitter:image, each with the key before the
\* content, else the first <img src>; "" when nothing matches
RegexImage(page) ==
    IF page.og.present /\ page.og.order = "key_first" THEN page.og.content
    ELSE IF page.tw.present /\ page.tw.order = "key_first" THEN page.tw.content
    ELSE page.inline

\* lines 769-784: the same preference on the parsed tree, then urljoin
SoupImage(page) ==
    LET found == IF page.og.present THEN page.og.content
                 ELSE IF page.tw.present THEN page.tw.content
                 ELSE page.inline
    IN  IF found = "" THEN Null ELSE Urljoin(found)

\* lines 744-786
ScrapeImage(page) ==
    IF RegexImage(page) # "" THEN RegexImage(page) ELSE SoupImage(page)

ImageKeepsScraped(existing_image, page) == ScrapeImage(page)

\* lines 740-786
ImageOf(existing_image, page) ==
    IF existing_image \notin {Null, ""} THEN existing_image ELSE ScrapeImage(page)

\* line 788
Finalize(frame) ==
    [full_text |-> FormattedText(frame.text),
     image |-> ImageOf(frame.existing_image, frame.resp.page)]

Frame(depth, url, existing_image, title) ==
    [depth |-> depth, url |-> url, existing_image |-> existing_image,
     title |-> title, pc |-> "enter", tries |-> 0, resp |-> [kind |-> "none"],
     text |-> NoText]

\* a recursive call (lines 676, 725): its kind, the caller's depth, and the
\* url and title it passes on
Hop(kind, depth, url, title) ==
    [kind |-> kind, depth |-> depth, url |-> url, title |-> title]

FTop == fstack[Len(fstack)]

Callers == SubSeq(fstack, 1, Len(fstack) - 1)

CallerResultOnTie(caller, alt) ==
    IF caller.pc = "await_consent" THEN alt
    ELSE IF alt.full_text.len >= TextLen(caller.text) THEN alt
    ELSE Finalize(caller)

\* what a calling frame returns once the call it waits for has returned alt
CallerResult(caller, alt) ==
    IF caller.pc = "await_consent" THEN alt                        \* line 676
    ELSE IF alt.full_text.len > TextLen(caller.text) THEN alt      \* lines 726-728
    ELSE Finalize(caller)

\* what a calling frame returns once the call it waits for has raised
CallerOnRaise(caller, n) ==
    IF caller.pc = "await_consent" THEN Failure(ErrorSentinel(n))  \* lines 789-790
    ELSE Finalize(caller)                                          \* lines 729-730

RECURSIVE Unwind(_, _)
Unwind(callers, value) ==
    IF callers = <<>> THEN value
    ELSE Unwind(SubSeq(callers, 1, Len(callers) - 1),
                CallerResult(callers[Len(callers)], value))

\* the running frame returns value, and so does every frame waiting for it
FReturn(value) ==
    /\ fresult' = Unwind(Callers, value)
    /\ fstack' = <<>>
    /\ fpc' = "done"

SetFTop(frame) == [fstack EXCEPT ![Len(fstack)] = frame]

(***************************************************************************)
(* Answers of the network.                                                 *)
(***************************************************************************)
BasePage ==
    [continue_google |-> FALSE, cookies_accept |-> FALSE, size |-> 1000,
     html |-> TRUE, text |-> Text(ShortThreshold, 0), link |-> "none",
     og |-> NoMeta, tw |-> NoMeta, inline |-> "", raises |-> FALSE]

OgChoices ==
    {NoMeta} \cup { Meta(o, c) : o \in {"key_first", "content_first"}, c \in {OgAbs, OgRel} }

TwChoices == {NoMeta, Meta("key_first", TwAbs), Meta("content_first", TwRel)}

TextChoices ==
    {NoText, Text(10, 0), Text(100, 0), Text(ShortThreshold - 1, 1),
     Text(ShortThreshold, 0)}

LinkChoices == {"none", "same", "relative", "other", "unprintable"}

Pages ==
    { [BasePage EXCEPT !.text = t, !.link = l] : t \in TextChoices, l \in LinkChoices }
    \cup { [BasePage EXCEPT !.html = FALSE, !.text = t, !.link = "other"] :
             t \in {NoText, Text(10, 0)} }
    \cup { [BasePage EXCEPT !.cookies_accept = TRUE, !.size = n] :
             n \in {ConsentSizeLimit - 1, ConsentSizeLimit} }
    \cup { [BasePage EXCEPT !.continue_google = TRUE, !.size = n] :
             n \in {1000, ConsentSizeLimit} }
    \cup { [BasePage EXCEPT !.raises = TRUE],
           [BasePage EXCEPT !.text = Text(100, 0), !.og = Meta("key_first", OgAbs)] }
    \cup { [BasePage EXCEPT !.og = o, !.tw = t, !.inline = i] :
             o \in OgChoices, t \in TwChoices, i \in {"", InRel} }
    \cup { [BasePage EXCEPT !.og = Meta("key_first", OgAbs), !.text = NoText] }

\* line 74: Retry(total=3, ..., status_forcelist=(500, 502, 503, 504))
MaxRetries == 3

RetryStatuses == {500, 502, 503, 504}

\* non-success statuses the adapter hands over to the caller
PermanentStatuses == {403, 404}

\* statuses of the retry list the servers of the model answer with
RetriedAnswers == {503}

Sent(depth, status) == [depth |-> depth, status |-> status]

Responses ==
    { [ok |-> FALSE, status |-> c, consent_url |-> FALSE, page |-> BasePage] :
        c \in PermanentStatuses }
    \cup { [ok |-> TRUE, status |-> 200, consent_url |-> TRUE, page |-> BasePage] }
    \cup { [ok |-> TRUE, status |-> 200, consent_url |-> FALSE, page |-> pg] :
             pg \in Pages }

\* what _search_ddg_fallback(title) can return
DiscoveryOutcomes == { [found |-> FALSE, url |-> UrlAlt] }
    \cup { [found |-> TRUE, url |-> u] : u \in {UrlAlt, UrlConsentAlt, UrlBad} }

(***************************************************************************)
(* _fetch_article_text, step by step.                                      *)
(***************************************************************************)
Unprintable(frame) == ~frame.url.printable \/ ~TitlePrintable(frame.title)

\* lines 638-645: the two log lines and the resolver
FetchEnter ==
    /\ fpc = "run"
    /\ FTop.pc = "enter"
    /\ ~Unprintable(FTop)
    /\ fstack' = SetFTop([FTop EXCEPT !.url = DecodeGoogleNewsUrl(FTop.url), !.pc = "get"])
    /\ UNCHANGED <<fin, fpc, fresult, fraised, fgets, fhops, fdisc, fpages, fsent>>

\* lines 638-639 stand before the try: print() raises UnicodeEncodeError
FetchEnterRaises ==
    /\ fpc = "run"
    /\ FTop.pc = "enter"
    /\ Unprintable(FTop)
    /\ IF Len(fstack) = 1
       THEN /\ fraised' = TRUE
            /\ UNCHANGED fresult
       ELSE /\ \E n \in ErrorMessageLens :
                 fresult' = Unwind(SubSeq(fstack, 1, Len(fstack) - 2),
                                   CallerOnRaise(fstack[Len(fstack) - 1], n))
            /\ UNCHANGED fraised
    /\ fstack' = <<>>
    /\ fpc' = "done"
    /\ UNCHANGED <<fin, fgets, fhops, fdisc, fpages, fsent>>

\* line 650 raises (timeout, connection error); lines 789-790
FetchGetFails ==
    /\ fpc = "run"
    /\ FTop.pc = "get"
    /\ fgets' = fgets + 1
    /\ fsent' = Append(fsent, Sent(FTop.depth, 0))
    /\ \E n \in ErrorMessageLens : FReturn(Failure(ErrorSentinel(n)))
    /\ UNCHANGED <<fin, fraised, fhops, fdisc, fpages>>

\* inside line 650: the answer has a status of the retry list and retries are
\* left, the adapter sends the request again
FetchGetRetries ==
    /\ fpc = "run"
    /\ FTop.pc = "get"
    /\ FTop.tries < MaxRetries
    /\ \E status \in RetriedAnswers : fsent' = Append(fsent, Sent(FTop.depth, status))
    /\ fstack' = SetFTop([FTop EXCEPT !.tries = FTop.tries + 1])
    /\ UNCHANGED <<fin, fpc, fresult, fraised, fgets, fhops, fdisc, fpages>>

\* inside line 650: the retries are used up, session.get raises RetryError;
\* lines 789-790
FetchGetExhausted ==
    /\ fpc = "run"
    /\ FTop.pc = "get"
    /\ FTop.tries = MaxRetries
    /\ fgets' = fgets + 1
    /\ \E status \in RetriedAnswers : fsent' = Append(fsent, Sent(FTop.depth, status))
    /\ \E n \in ErrorMessageLens : FReturn(Failure(ErrorSentinel(n)))
    /\ UNCHANGED <<fin, fraised, fhops, fdisc, fpages>>

\* line 650 returns a response
FetchGetResponds ==
    /\ fpc = "run"
    /\ FTop.pc = "get"
    /\ fgets' = fgets + 1
    /\ \E resp \in Responses :
        /\ fstack' = SetFTop([FTop EXCEPT !.resp = resp, !.pc = "got"])
        /\ fpages' = Append(fpages, [depth |-> FTop.depth, resp |-> resp])
        /\ fsent' = Append(fsent, Sent(FTop.depth, resp.status))
    /\ UNCHANGED <<fin, fpc, fresult, fraised, fhops, fdisc>>

\* lines 657-658
FetchBadStatus ==
    /\ fpc = "run"
    /\ FTop.pc = "got"
    /\ ~FTop.resp.ok
    /\ FReturn(Failure(StatusSentinel))
    /\ UNCHANGED <<fin, fraised, fgets, fhops, fdisc, fpages, fsent>>

DiscoversUntitled(frame) == frame.depth = 0

\* line 671: title and _depth == 0
Discovers(frame) == frame.title \notin {Null, ""} /\ frame.depth = 0

\* lines 669-676: a fallback url is found and fetched at depth + 1, without title
FetchConsentRetry ==
    /\ fpc = "run"
    /\ FTop.pc = "got"
    /\ FTop.resp.ok
    /\ IsConsentPage(FTop.resp)
    /\ Discovers(FTop)
    /\ \E alt \in DiscoveryOutcomes :
        /\ alt.found
        /\ ~IsGoogleHost(alt.url)
        /\ fstack' = Append(SetFTop([FTop EXCEPT !.pc = "await_consent"]),
                            Frame(FTop.depth + 1, alt.url, FTop.existing_image, Null))
        /\ fhops' = Append(fhops, Hop("consent", FTop.depth, alt.url, Null))
    /\ fdisc' = Append(fdisc, FTop.depth)
    /\ UNCHANGED <<fin, fpc, fresult, fraised, fgets, fpages, fsent>>

\* line 678
FetchConsentSentinel ==
    /\ fpc = "run"
    /\ FTop.pc = "got"
    /\ FTop.resp.ok
    /\ IsConsentPage(FTop.resp)
    /\ IF Discovers(FTop)
       THEN /\ \E alt \in DiscoveryOutcomes : ~alt.found \/ IsGoogleHost(alt.url)
            /\ fdisc' = Append(fdisc, FTop.depth)
       ELSE UNCHANGED fdisc
    /\ FReturn(Failure(ConsentSentinel))
    /\ UNCHANGED <<fin, fraised, fgets, fhops, fpages, fsent>>

IsContentAnyStatus(frame) ==
    frame.pc = "got" /\ ~IsConsentPage(frame.resp)

\* past the tests of lines 657 and 669
IsContent(frame) ==
    frame.pc = "got" /\ frame.resp.ok /\ ~IsConsentPage(frame.resp)

\* line 684 raises; lines 789-790
FetchExtractFails ==
    /\ fpc = "run"
    /\ IsContent(FTop)
    /\ FTop.resp.page.raises
    /\ \E n \in ErrorMessageLens : FReturn(Failure(ErrorSentinel(n)))
    /\ UNCHANGED <<fin, fraised, fgets, fhops, fdisc, fpages, fsent>>

Hops(frame) ==
    /\ HopWanted(frame.depth, frame.resp.page.text, frame.resp.page)
    /\ HopTaken(SourceUrl(frame.resp.page, frame.url), frame.url)

\* lines 717-725: the canonical or source url is fetched at depth + 1
FetchHop ==
    /\ fpc = "run"
    /\ IsContent(FTop)
    /\ ~FTop.resp.page.raises
    /\ Hops(FTop)
    /\ fstack' = Append(
          SetFTop([FTop EXCEPT !.text = FTop.resp.page.text, !.pc = "await_hop"]),
          Frame(FTop.depth + 1, SourceUrl(FTop.resp.page, FTop.url).url,
                FTop.existing_image, Null))
    /\ fhops' = Append(fhops, Hop("canonical", FTop.depth,
                                  SourceUrl(FTop.resp.page, FTop.url).url, Null))
    /\ UNCHANGED <<fin, fpc, fresult, fraised, fgets, fdisc, fpages, fsent>>

\* lines 732-788
FetchFinish ==
    /\ fpc = "run"
    /\ IsContent(FTop)
    /\ ~FTop.resp.page.raises
    /\ ~Hops(FTop)
    /\ FReturn(Finalize([FTop EXCEPT !.text = FTop.resp.page.text]))
    /\ UNCHANGED <<fin, fraised, fgets, fhops, fdisc, fpages, fsent>>

FetchInputs ==
    { [url |-> u, existing_image |-> Null, title |-> t] :
        u \in {UrlArticle, UrlBad, UrlWrapped}, t \in {Null, "", "title", "bad title"} }
    \cup { [url |-> UrlArticle, existing_image |-> im, title |-> t] :
             im \in {"", "img"}, t \in {Null, "title"} }

InitFetch ==
    /\ fin \in FetchInputs
    /\ fpc = "run"
    /\ fstack = << Frame(0, fin.url, fin.existing_image, fin.title) >>
    /\ fresult = NoFetch
    /\ fraised = FALSE
    /\ fgets = 0
    /\ fhops = <<>>
    /\ fdisc = <<>>
    /\ fpages = <<>>
    /\ fsent = <<>>
    /\ DecodeIdle
    /\ SearchIdle
    /\ ExtractIdle
    /\ CacheIdle
    /\ LlmIdle
    /\ ScreenIdle

NextFetch ==
    \/ FetchEnter /\ UNCHANGED <<dvars, svars, xvars, cvars, lvars, uvars>>
    \/ FetchEnterRaises /\ UNCHANGED <<dvars, svars, xvars, cvars, lvars, uvars>>
    \/ FetchGetFails /\ UNCHANGED <<dvars, svars, xvars, cvars, lvars, uvars>>
    \/ FetchGetRetries /\ UNCHANGED <<dvars, svars, xvars, cvars, lvars, uvars>>
    \/ FetchGetExhausted /\ UNCHANGED <<dvars, svars, xvars, cvars, lvars, uvars>>
    \/ FetchGetResponds /\ UNCHANGED <<dvars, svars, xvars, cvars, lvars, uvars>>
    \/ FetchBadStatus /\ UNCHANGED <<dvars, svars, xvars, cvars, lvars, uvars>>
    \/ FetchConsentRetry /\ UNCHANGED <<dvars, svars, xvars, cvars, lvars, uvars>>
    \/ FetchConsentSentinel /\ UNCHANGED <<dvars, svars, xvars, cvars, lvars, uvars>>
    \/ FetchExtractFails /\ UNCHANGED <<dvars, svars, xvars, cvars, lvars, uvars>>
    \/ FetchHop /\ UNCHANGED <<dvars, svars, xvars, cvars, lvars, uvars>>
    \/ FetchFinish /\ UNCHANGED <<dvars, svars, xvars, cvars, lvars, uvars>>

SpecFetch == InitFetch /\ [][NextFetch]_vars

(***************************************************************************)
(* Properties of the article fetcher.                                      *)
(***************************************************************************)
IsFullText(t) ==
    /\ t.kind \in {"text", "status", "consent", "noextract", "exception"}
    /\ t.len \in Nat

\* C1: the fetcher never raises to its caller; it always returns a result with
\* a string full_text and an image that is a string or null.
C1_NeverRaises ==
    /\ fraised = FALSE
    /\ fpc = "done" =>
        /\ IsFullText(fresult.full_text)
        /\ fresult.image \in {Null, "", "img"} \cup OgUrls \cup TwUrls \cup InUrls

\* the call returned what lines 732-788 made of the one page it requested
SinglePage ==
    /\ fpc = "done"
    /\ fraised = FALSE
    /\ fhops = <<>>
    /\ Len(fpages) = 1
    /\ fresult.full_text.kind \in {"text", "noextract"}

\* C14: with no known_image, a page with an og:image meta tag yields the
\* og:image url resolved against the page's url, whatever the order of the
\* attributes and whatever twitter:image or <img> the page also holds;
\* twitter:image is used only when there is no og:image, the first inline
\* image only when there is neither.
C14_OgImagePreferred ==
    (SinglePage /\ fin.existing_image = Null) =>
        LET page == fpages[1].resp.page IN
        /\ page.og.present => fresult.image = Urljoin(page.og.content)
        /\ fresult.image \in TwUrls => ~page.og.present
        /\ fresult.image \in InUrls => ~page.og.present /\ ~page.tw.present

KnownImage == fin.existing_image \notin {Null, ""}

\* C15: called with a non-empty known_image, the fetcher returns that image
\* unchanged in every terminal outcome, extracted text or sentinel, with or
\* without a retry hop.
C15_KnownImageKept ==
    (fpc = "done" /\ fraised = FALSE /\ KnownImage) =>
        fresult.image = fin.existing_image

\* what lines 732-788 make of a page
Finalized(page) ==
    [full_text |-> FormattedText(page.text), image |-> ImageOf(fin.existing_image, page)]

\* the frame that received the i-th response has left the tests of 657-690
Handled(i) == ~(fpc = "run" /\ FTop.pc = "got" /\ FTop.depth = i - 1)

\* C16 as claimed: every answer with a non-success status is the last request
\* of the run, and at depth 0 the result is the status sentinel.
C16_BadStatusTerminal ==
    \A i \in 1..Len(fsent) :
        fsent[i].status \notin {0, 200} =>
            /\ i = Len(fsent)
            /\ (fpc = "done" /\ fsent[i].depth = 0) => fresult = Failure(StatusSentinel)

SentAt(depth) == SelectSeq(fsent, LAMBDA r : r.depth = depth)

\* C16: a response that session.get hands over with a non-success status (a
\* status outside the adapter's retry list) ends its fetch at once with the
\* sentinel "Ошибка загрузки: <status>": at either depth that fetch makes no
\* consent check, no fallback discovery, no canonical hop and no further
\* request.  An answer with a status of the retry list is requested again, at
\* most MaxRetries times, and ends as the exception sentinel when it persists.
C16_PermanentStatusTerminal ==
    /\ \A i \in 1..Len(fpages) : fpages[i].resp.status \notin RetryStatuses
    /\ \A d \in 0..1 : Len(SentAt(d)) <= MaxRetries + 1
    /\ ( /\ fpc = "done" /\ fsent # <<>>
         /\ fsent[Len(fsent)].depth = 0
         /\ fsent[Len(fsent)].status \in RetryStatuses )
       => (fresult.full_text.kind = "exception" /\ Len(SentAt(0)) = MaxRetries + 1)
    /\ \A i \in 1..Len(fpages) :
        ~fpages[i].resp.ok =>
            /\ i = Len(fpages)
            /\ fgets = i
            /\ fsent[Len(fsent)] = Sent(i - 1, fpages[i].resp.status)
            /\ Len(fhops) = i - 1
            /\ fdisc # <<>> => (i = 2 /\ fhops[1].kind = "consent")
            /\ fpc = "done" =>
                  IF i = 1 \/ fhops[1].kind = "consent"
                  THEN fresult = Failure(StatusSentinel)
                  ELSE fresult \in {Failure(StatusSentinel), Finalized(fpages[1].resp.page)}

\* the fallback url found after a consent wall (itself delivered after a
\* retried 503) answered 404 at depth 1
C16_Witness ==
    /\ fpc = "done"
    /\ \E i \in 1..Len(fsent) : fsent[i] = Sent(0, 503)
    /\ Len(fpages) = 2
    /\ fpages[2].resp.status = 404
    /\ fhops[1].kind = "consent"
    /\ fgets = 2
    /\ fresult = Failure(StatusSentinel)

TitleSupplied == fin.title \notin {Null, ""}

ConsentWall(i) == fpages[i].resp.ok /\ IsConsentPage(fpages[i].resp)

\* C17: after a consent wall, fallback discovery runs if and only if a title
\* was supplied and the fetch is at depth 0; the fetch is retried at most once,
\* on a fallback url that is no news.google.com / consent.google.com url, and
\* without title; in every other case the result is the consent sentinel.
C17_ConsentFallback ==
    /\ Len(fdisc) <= 1
    /\ fdisc # <<>> <=>
          (Len(fpages) >= 1 /\ ConsentWall(1) /\ Handled(1) /\ TitleSupplied)
    /\ \A i \in 1..Len(fhops) :
          fhops[i].kind = "consent" =>
              /\ i = 1 /\ fhops[i].depth = 0
              /\ fdisc = <<0>> /\ ConsentWall(1)
              /\ ~IsGoogleHost(fhops[i].url)
              /\ fhops[i].title = Null
    /\ \A i \in 2..Len(fstack) : fstack[i].title = Null
    /\ (fpc = "done" /\ Len(fpages) >= 1 /\ ConsentWall(Len(fpages))) =>
          /\ (Len(fpages) = 1 /\ fhops = <<>>) => fresult = Failure(ConsentSentinel)
          /\ (Len(fpages) = 2 /\ fhops[1].kind = "consent") =>
                fresult = Failure(ConsentSentinel)
          /\ (Len(fpages) = 2 /\ fhops[1].kind = "canonical") =>
                fresult \in {Failure(ConsentSentinel), Finalized(fpages[1].resp.page)}

\* one retry on a discovered url whose page was a consent wall again: no second
\* discovery, the consent sentinel is returned
C17_Witness ==
    /\ fpc = "done"
    /\ TitleSupplied
    /\ fdisc = <<0>>
    /\ Len(fhops) = 1 /\ fhops[1].kind = "consent" /\ fhops[1].url = UrlAlt
    /\ Len(fpages) = 2 /\ ConsentWall(2)
    /\ fresult = Failure(ConsentSentinel)

\* C18: a response whose final url is no consent url and whose body has at
\* least 50000 characters is never classified as a consent wall, whichever
\* consent phrases the body holds.
C18_LargeBodyNeverConsent ==
    ( /\ fpc = "done"
      /\ Len(fpages) = 1 /\ fhops = <<>> /\ fgets = 1
      /\ fpages[1].resp.ok
      /\ ~fpages[1].resp.consent_url
      /\ fpages[1].resp.page.size >= ConsentSizeLimit )
    => fresult.full_text.kind # "consent" /\ fdisc = <<>>

\* the page a canonical hop requested yielded extracted text
HopYieldedText ==
    /\ fpc = "done" /\ fraised = FALSE
    /\ Len(fhops) = 1 /\ fhops[1].kind = "canonical"
    /\ Len(fpages) = 2
    /\ fpages[2].resp.ok /\ ~IsConsentPage(fpages[2].resp)
    /\ ~fpages[2].resp.page.raises
    /\ ~fpages[2].resp.page.text.none

\* C19: after a short-content hop at depth 0 the fetcher returns the hop's
\* result when the hop's full_text is strictly longer than the text extracted
\* from the original page, and the original page's result otherwise (a tie
\* keeps the original).
C19_LongerTextKept ==
    HopYieldedText =>
        LET orig == fpages[1].resp.page
            alt == Finalized(fpages[2].resp.page)
        IN  fresult = IF alt.full_text.len > TextLen(orig.text)
                      THEN alt ELSE Finalized(orig)

\* a tie: the hop's page has an image and as much text as the original, and
\* the original page's result (without image) is what came back
C19_Witness ==
    /\ HopYieldedText
    /\ fin.existing_image = Null
    /\ FormattedText(fpages[2].resp.page.text).len = TextLen(fpages[1].resp.page.text)
    /\ fpages[2].resp.page.og.present
    /\ fresult.image = Null
    /\ fresult.full_text.kind = "text"

\* C2: the recursion depth never exceeds 1; at most one retry hop is taken, so
\* at most two article pages are requested, and a fetch at depth 1 performs
\* neither fallback discovery nor a canonical hop.
C2_DepthBounded ==
    /\ Len(fstack) <= 2
    /\ \A i \in 1..Len(fstack) : fstack[i].depth = i - 1 /\ fstack[i].depth <= 1
    /\ Len(fhops) <= 1
    /\ fgets <= 2
    /\ \A i \in 1..Len(fhops) : fhops[i].depth = 0
    /\ \A i \in 1..Len(fdisc) : fdisc[i] = 0

\* a canonical hop whose target answered with a consent wall: the fetch at
\* depth 1 ended there, with neither discovery nor a further request
C2_Witness ==
    /\ fpc = "done"
    /\ fgets = 2
    /\ Len(fhops) = 1
    /\ fhops[1].kind = "canonical" /\ fhops[1].depth = 0
    /\ fdisc = <<>>
    /\ fresult.full_text = ConsentSentinel

\* C24: the short-content hop is taken only to a url distinct from the url just
\* fetched, compared after resolution against the page's url: a canonical
\* link, og:url or source anchor that designates the page itself causes no
\* second request for the same url.
C24_HopToDistinctUrl ==
    \A i \in 1..Len(fhops) :
        fhops[i].kind = "canonical" => fhops[i].url # DecodeGoogleNewsUrl(fin.url)

\* a canonical hop was taken and did not end with text extracted from its page
HopFailed ==
    /\ fpc = "done" /\ fraised = FALSE
    /\ Len(fhops) = 1 /\ fhops[1].kind = "canonical"
    /\ \/ Len(fpages) = 1
       \/ /\ Len(fpages) = 2
          /\ \/ ~fpages[2].resp.ok
             \/ IsConsentPage(fpages[2].resp)
             \/ fpages[2].resp.page.raises
             \/ fpages[2].resp.page.text.none

\* C28: when the original page yielded extracted text and the short-content
\* hop ends in a failure sentinel (status, exception, consent or extraction
\* failure), the fetcher returns the original page's result, whatever the
\* length of the sentinel.
C28_FailedHopKeepsText ==
    (HopFailed /\ ~fpages[1].resp.page.text.none) =>
        fresult = Finalized(fpages[1].resp.page)

(***************************************************************************)
(* backend.py: the TTL cache and the getters that use it.                  *)
(* A cache entry is [present, ts, val].  The getters run on threads; each  *)
(* thread's frame is [pc, key, ttl, cached, val, out, calls].  Values are  *)
(* "w0", "w1" (weather dicts, "w0" the dict of a failed fetch_json), "p1"  *)
(* (a price) and "p0" (the price 0.0, falsy).                              *)
(***************************************************************************)
NumThreads == 2      \* threads calling the getters

MaxCalls == 2        \* getter calls per thread

MaxNow == 3          \* the clock stops here

Threads == 1..NumThreads

Keys == {"weather", "yahoo"}

TTLs == {1, 2}

NoEntry == [present |-> FALSE, ts |-> 0, val |-> Null]

Entry(ts, val) == [present |-> TRUE, ts |-> ts, val |-> val]

NotExpiredInclusive(ts, ttl, now) == now - ts <= ttl

\* line 18: time.time() - ts < ttl
NotExpired(ts, ttl, now) == now - ts < ttl

\* "if cached:" (lines 44, 65, 108)
Truthy(val) == val \notin {Null, "p0"}

ThreadIdle(calls) ==
    [pc |-> "idle", key |-> "none", ttl |-> 0, cached |-> Null, val |-> Null,
     out |-> Null, calls |-> calls]

\* what the upstream request of a getter ends with: the value it caches, or
\* no value when the getter returns its fallback without caching
Upstream(key) ==
    IF key = "weather"
    THEN { [cached |-> TRUE, val |-> v] : v \in {"w0", "w1"} }              \* lines 47-58
    ELSE { [cached |-> TRUE, val |-> v] : v \in {"p0", "p1"} }              \* lines 70-79
         \cup { [cached |-> FALSE, val |-> "p0"] }                          \* line 82

\* time passes
CacheTick ==
    /\ cnow < MaxNow
    /\ cnow' = cnow + 1
    /\ UNCHANGED <<cache, cache_lock, cthr, clast>>

\* a getter is called: lines 42-43, 63-64, 106-107
GetterCall(t) ==
    /\ cthr[t].pc = "idle"
    /\ cthr[t].calls < MaxCalls
    /\ \E k \in Keys, ttl \in TTLs :
        cthr' = [cthr EXCEPT ![t] = [ThreadIdle(cthr[t].calls + 1) EXCEPT
                                        !.pc = "get_wait", !.key = k, !.ttl = ttl]]
    /\ UNCHANGED <<cache, cache_lock, cnow, clast>>

\* line 14: with _cache_lock
GetAcquire(t) ==
    /\ cthr[t].pc = "get_wait"
    /\ cache_lock = 0
    /\ cache_lock' = t
    /\ cthr' = [cthr EXCEPT ![t].pc = "get_held"]
    /\ UNCHANGED <<cache, cnow, clast>>

\* lines 15-22, and the release of the lock
GetFromCache(t) ==
    /\ cthr[t].pc = "get_held"
    /\ LET k == cthr[t].key
           entry == cache[k]
       IN  IF ~entry.present
           THEN /\ cthr' = [cthr EXCEPT ![t].pc = "checked", ![t].cached = Null]
                /\ UNCHANGED cache
           ELSE IF NotExpired(entry.ts, cthr[t].ttl, cnow)
           THEN /\ cthr' = [cthr EXCEPT ![t].pc = "checked", ![t].cached = entry.val]
                /\ UNCHANGED cache
           ELSE /\ cthr' = [cthr EXCEPT ![t].pc = "checked", ![t].cached = Null]
                /\ cache' = [cache EXCEPT ![k] = NoEntry]
    /\ cache_lock' = 0
    /\ UNCHANGED <<cnow, clast>>

\* lines 44-45, 65-66, 108-109: the cached value is returned
GetterHit(t) ==
    /\ cthr[t].pc = "checked"
    /\ Truthy(cthr[t].cached)
    /\ cthr' = [cthr EXCEPT ![t].pc = "idle", ![t].out = cthr[t].cached]
    /\ UNCHANGED <<cache, cache_lock, cnow, clast>>

\* lines 47-57, 68-82, 111-146: the upstream request and what follows it
GetterFetch(t) ==
    /\ cthr[t].pc = "checked"
    /\ ~Truthy(cthr[t].cached)
    /\ \E r \in Upstream(cthr[t].key) :
        cthr' = IF r.cached
                THEN [cthr EXCEPT ![t].pc = "set_wait", ![t].val = r.val]
                ELSE [cthr EXCEPT ![t].pc = "idle", ![t].out = r.val]
    /\ UNCHANGED <<cache, cache_lock, cnow, clast>>

\* line 26: with _cache_lock
SetAcquire(t) ==
    /\ cthr[t].pc = "set_wait"
    /\ cache_lock = 0
    /\ cache_lock' = t
    /\ cthr' = [cthr EXCEPT ![t].pc = "set_held"]
    /\ UNCHANGED <<cache, cnow, clast>>

\* line 27, the release of the lock, and the getter's return
SetCache(t) ==
    /\ cthr[t].pc = "set_held"
    /\ cache' = [cache EXCEPT ![cthr[t].key] = Entry(cnow, cthr[t].val)]
    /\ clast' = [clast EXCEPT ![cthr[t].key] = Entry(cnow, cthr[t].val)]
    /\ cache_lock' = 0
    /\ cthr' = [cthr EXCEPT ![t].pc = "idle", ![t].out = cthr[t].val]
    /\ UNCHANGED cnow

InitCache ==
    /\ cache = [k \in Keys |-> NoEntry]
    /\ cache_lock = 0
    /\ cnow = 0
    /\ cthr = [t \in Threads |-> ThreadIdle(0)]
    /\ clast = [k \in Keys |-> NoEntry]
    /\ DecodeIdle
    /\ SearchIdle
    /\ FetchIdle
    /\ ExtractIdle
    /\ LlmIdle
    /\ ScreenIdle

NextCache ==
    \/ CacheTick /\ UNCHANGED <<dvars, svars, fvars, xvars, lvars, uvars>>
    \/ \E t \in Threads : GetterCall(t) /\ UNCHANGED <<dvars, svars, fvars, xvars, lvars, uvars>>
    \/ \E t \in Threads : GetAcquire(t) /\ UNCHANGED <<dvars, svars, fvars, xvars, lvars, uvars>>
    \/ \E t \in Threads : GetFromCache(t) /\ UNCHANGED <<dvars, svars, fvars, xvars, lvars, uvars>>
    \/ \E t \in Threads : GetterHit(t) /\ UNCHANGED <<dvars, svars, fvars, xvars, lvars, uvars>>
    \/ \E t \in Threads : GetterFetch(t) /\ UNCHANGED <<dvars, svars, fvars, xvars, lvars, uvars>>
    \/ \E t \in Threads : SetAcquire(t) /\ UNCHANGED <<dvars, svars, fvars, xvars, lvars, uvars>>
    \/ \E t \in Threads : SetCache(t) /\ UNCHANGED <<dvars, svars, fvars, xvars, lvars, uvars>>

SpecCache == InitCache /\ [][NextCache]_vars

(***************************************************************************)
(* Properties of the cache.                                                *)
(***************************************************************************)
\* thread t runs the body of _get_from_cache in this step
GetStep(t) == cthr[t].pc = "get_held" /\ cthr'[t].pc = "checked"

ReadOf(t) ==
    LET k == cthr[t].key
        entry == cache[k]
        live == entry.present /\ cnow - entry.ts < cthr[t].ttl
    IN  /\ entry.present => entry = clast[k]
        /\ live => cthr'[t].cached = clast[k].val /\ cache' = cache
        /\ ~live => cthr'[t].cached = Null
        /\ (entry.present /\ cnow - entry.ts >= cthr[t].ttl)
           => cache' = [cache EXCEPT ![k] = NoEntry]
        /\ \A k2 \in Keys \ {k} : cache'[k2] = cache[k2]

\* C22: _get_from_cache(key, ttl) returns the value last stored under key if
\* and only if an entry exists and now - timestamp < ttl; when now - timestamp
\* >= ttl it returns null and removes the entry; nothing but such an expired
\* read ever removes an entry, and a read of one key leaves every other key's
\* entry as it was.
C22_TtlCache ==
    [][ /\ \A t \in Threads : GetStep(t) => ReadOf(t)
        /\ \A k \in Keys :
             (cache[k].present /\ ~cache'[k].present) =>
                \E t \in Threads : /\ GetStep(t)
                                   /\ cthr[t].key = k
                                   /\ cnow - cache[k].ts >= cthr[t].ttl ]_vars

\* an expired read has just returned null and removed its entry, while the
\* other key's entry is still there
C22_Witness ==
    \E t \in Threads :
        /\ cthr[t].pc = "checked"
        /\ cthr[t].cached = Null
        /\ clast[cthr[t].key].present
        /\ cnow - clast[cthr[t].key].ts >= cthr[t].ttl
        /\ ~cache[cthr[t].key].present
        /\ \E k \in Keys \ {cthr[t].key} : cache[k].present

\* thread t has seen a miss and has not yet returned
InMiss(t) ==
    \/ cthr[t].pc = "checked" /\ ~Truthy(cthr[t].cached)
    \/ cthr[t].pc \in {"set_wait", "set_held"}

\* C23: the read-check-write of a getter runs under one lock: two threads
\* calling a getter for the same key never both observe the miss and go on to
\* the upstream request before one of them has written the entry.
C23_SingleMiss ==
    \A t1, t2 \in Threads :
        (t1 # t2 /\ cthr[t1].key = cthr[t2].key) => ~(InMiss(t1) /\ InMiss(t2))

(***************************************************************************)
(* llm_integration.py: FastLLMClient.                                      *)
(* api_key is TRUE when a key is configured; client is "sdk" (an OpenAI    *)
(* object) or Null.  A keywords cache entry is [state, val] with state     *)
(* "none", "fresh" or "stale" (older than _cache_ttl).  A call of the      *)
(* model is logged as [via, res]: the transport and what came back.        *)
(***************************************************************************)
MaxOps == 3          \* methods called on one client

MaxModels == 2       \* len(self.models)

LlmTexts == {"", "t"}

LlmQueries == {"", " ", "q"}

\* cache_key: query.strip().lower() (line 175)
KwKey(query) == IF query = " " THEN "" ELSE query

KwKeys == { KwKey(q) : q \in LlmQueries }

NoKw == [state |-> "none", val |-> "none"]

\* lines 37-50 and 68-87: self.client
NewClient(api_key, sdk) == IF api_key /\ sdk THEN "sdk" ELSE Null

\* "if not self.client" (lines 180, 279)
NoClient(self) == self.client = Null

\* lines 156-166: the SDK when there is a client, _call_model_http otherwise
Transport(self) == IF self.client # Null THEN "sdk" ELSE "http"

\* what future.result(timeout) gives: a text, a text of separators only, an
\* empty text, or an exception (timeout, HTTP error, RuntimeError of line 92)
ModelOutcomes(self) ==
    IF Transport(self) = "http" /\ ~self.api_key THEN {"raise"}
    ELSE {"text", "separators", "empty", "raise"}

LlmReady ==
    [pc |-> "ready", op |-> "none", arg |-> "", idx |-> 0, err |-> FALSE,
     log |-> <<>>, hit |-> FALSE, out |-> "none"]

Returns(op, arg, out) == [LlmReady EXCEPT !.op = op, !.arg = arg, !.out = out]

\* _cache_set (lines 146-147)
KwCacheSet(self, query, val) ==
    [self EXCEPT !.cache[KwKey(query)] = [state |-> "fresh", val |-> val]]

\* lines 250-273
LastFallback(query) == IF KwKey(query) # "" THEN "local" ELSE "empty_list"

\* configure (lines 65-87)
LlmConfigure ==
    /\ lcall.pc = "ready"
    /\ lops < MaxOps
    /\ \E k \in BOOLEAN :
        lself' = [lself EXCEPT !.api_key = k, !.client = NewClient(k, lenv.sdk)]
    /\ lcall' = Returns("configure", "", "none")
    /\ lops' = lops + 1
    /\ UNCHANGED lenv

\* time passes beyond _cache_ttl (line 141)
LlmExpire ==
    /\ lcall.pc = "ready"
    /\ \E k \in KwKeys : lself.cache[k].state = "fresh"
    /\ lself' = [lself EXCEPT !.cache =
                    [k \in KwKeys |-> IF lself.cache[k].state = "fresh"
                                      THEN [lself.cache[k] EXCEPT !.state = "stale"]
                                      ELSE lself.cache[k]]]
    /\ UNCHANGED <<lenv, lcall, lops>>

\* fact_check, lines 277-283
FactCheck ==
    /\ lcall.pc = "ready"
    /\ lops < MaxOps
    /\ \E text \in LlmTexts :
        lcall' = IF text = "" THEN Returns("fact_check", text, "no_text")
                 ELSE IF NoClient(lself) THEN Returns("fact_check", text, "unavailable")
                 ELSE [LlmReady EXCEPT !.pc = "fc_model", !.op = "fact_check",
                                       !.arg = text, !.idx = 1]
    /\ lops' = lops + 1
    /\ UNCHANGED <<lenv, lself>>

\* fact_check, one turn of the loop of lines 285-293, and lines 295-298
FactCheckModel ==
    /\ lcall.pc = "fc_model"
    /\ \E r \in ModelOutcomes(lself) :
        LET log == Append(lcall.log, [via |-> Transport(lself), res |-> r])
            err == lcall.err \/ r = "raise"
        IN  lcall' =
              IF r \in {"text", "separators"}
              THEN [lcall EXCEPT !.pc = "ready", !.log = log, !.out = "answer"]
              ELSE IF lcall.idx < lenv.models
              THEN [lcall EXCEPT !.idx = lcall.idx + 1, !.log = log, !.err = err]
              ELSE [lcall EXCEPT !.pc = "ready", !.log = log, !.err = err,
                                 !.out = IF err THEN "error" ELSE "no_answer"]
    /\ UNCHANGED <<lenv, lself, lops>>

\* generate_related_keywords, lines 173-201
Keywords ==
    /\ lcall.pc = "ready"
    /\ lops < MaxOps
    /\ \E query \in LlmQueries :
        IF query = ""
        THEN /\ lcall' = Returns("keywords", query, "empty_list")
             /\ UNCHANGED lself
        ELSE IF lself.cache[KwKey(query)].state = "fresh"
        THEN /\ lcall' = [Returns("keywords", query, lself.cache[KwKey(query)].val)
                             EXCEPT !.hit = TRUE]
             /\ UNCHANGED lself
        ELSE IF NoClient(lself)
        THEN /\ lcall' = Returns("keywords", query, "local")
             /\ lself' = KwCacheSet(lself, query, "local")
        ELSE /\ lcall' = [LlmReady EXCEPT !.pc = "kw_model", !.op = "keywords",
                                          !.arg = query, !.idx = 1]
             /\ UNCHANGED lself
    /\ lops' = lops + 1
    /\ UNCHANGED lenv

\* generate_related_keywords, one turn of the loop of lines 204-224
KeywordsModel ==
    /\ lcall.pc = "kw_model"
    /\ \E r \in ModelOutcomes(lself) :
        LET log == Append(lcall.log, [via |-> Transport(lself), res |-> r])
            out == IF r = "text" THEN "llm" ELSE "empty_list"
        IN  IF r \in {"text", "separators"}
            THEN /\ lcall' = [lcall EXCEPT !.pc = "ready", !.log = log, !.out = out]
                 /\ lself' = KwCacheSet(lself, lcall.arg, out)
            ELSE /\ lcall' = [lcall EXCEPT !.log = log,
                                !.idx = IF lcall.idx < lenv.models THEN lcall.idx + 1
                                        ELSE lcall.idx,
                                !.pc = IF lcall.idx < lenv.models THEN "kw_model"
                                       ELSE "kw_ddg"]
                 /\ UNCHANGED lself
    /\ UNCHANGED <<lenv, lops>>

\* generate_related_keywords, lines 226-273
KeywordsFallback ==
    /\ lcall.pc = "kw_ddg"
    /\ \E ddg \in {"suggestions", "nothing", "fails"} :
        LET out == IF ddg = "suggestions" THEN "ddg" ELSE LastFallback(lcall.arg)
        IN  /\ lcall' = [lcall EXCEPT !.pc = "ready", !.out = out]
            /\ lself' = IF out = "empty_list" THEN lself
                        ELSE KwCacheSet(lself, lcall.arg, out)
    /\ UNCHANGED <<lenv, lops>>

InitLlm ==
    /\ lenv \in [sdk : BOOLEAN, models : 1..MaxModels]
    /\ \E k \in BOOLEAN :
        lself = [api_key |-> k, client |-> NewClient(k, lenv.sdk),
                 cache |-> [key \in KwKeys |-> NoKw]]
    /\ lcall = LlmReady
    /\ lops = 0
    /\ DecodeIdle
    /\ SearchIdle
    /\ FetchIdle
    /\ ExtractIdle
    /\ CacheIdle
    /\ ScreenIdle

NextLlm ==
    \/ LlmConfigure /\ UNCHANGED <<dvars, svars, fvars, xvars, cvars, uvars>>
    \/ LlmExpire /\ UNCHANGED <<dvars, svars, fvars, xvars, cvars, uvars>>
    \/ FactCheck /\ UNCHANGED <<dvars, svars, fvars, xvars, cvars, uvars>>
    \/ FactCheckModel /\ UNCHANGED <<dvars, svars, fvars, xvars, cvars, uvars>>
    \/ Keywords /\ UNCHANGED <<dvars, svars, fvars, xvars, cvars, uvars>>
    \/ KeywordsModel /\ UNCHANGED <<dvars, svars, fvars, xvars, cvars, uvars>>
    \/ KeywordsFallback /\ UNCHANGED <<dvars, svars, fvars, xvars, cvars, uvars>>

SpecLlm == InitLlm /\ [][NextLlm]_vars

(***************************************************************************)
(* Properties of the LLM client.                                           *)
(***************************************************************************)
ViaHttp(log) == log # <<>> /\ \A i \in 1..Len(log) : log[i].via = "http"

AllModelsFailed(log) ==
    /\ Len(log) = lenv.models
    /\ \A i \in 1..Len(log) : log[i].res \in {"empty", "raise"}

\* C27: with an API key configured and the SDK not installed, fact_check and
\* generate_related_keywords go through _call_model_http; the "unavailable"
\* message and the local keyword fallback are used only when no API key is
\* configured or every model failed.
C27_HttpFallback ==
    (lcall.pc = "ready" /\ lcall.op \in {"fact_check", "keywords"}
        /\ lcall.arg # "" /\ ~lcall.hit) =>
        /\ (lself.api_key /\ ~lenv.sdk) => ViaHttp(lcall.log)
        /\ lcall.out = "unavailable" => ~lself.api_key
        /\ lcall.out = "local" => (~lself.api_key \/ AllModelsFailed(lcall.log))

(***************************************************************************)
(* kivy_news_app.py: SearchScreen.                                         *)
(* on_search and the Clock callbacks run on the main thread, one at a      *)
(* time; every search runs _perform_search on a thread of its own.  A      *)
(* result is [link, text]; a card is [link, of], of the thread whose       *)
(* results it shows; a status is [kind, query, n, by], by the thread whose *)
(* callback wrote it (0 for on_search).                                    *)
(***************************************************************************)
MaxSearches == 2     \* presses of the search button

ScreenQueries == {"q1", "q2"}

Res(link, text) == [link |-> link, text |-> text]

OwnLink(query) == IF query = "q1" THEN "a1" ELSE "a2"

\* what get_news_with_content(query, max_results=6) can return
PrimaryResults(query) ==
    { <<>>, <<Res(OwnLink(query), TRUE)>>,
      <<Res(OwnLink(query), TRUE), Res("shared", FALSE)>> }

\* what the synonym searches can add up to
ExtraResults == { <<>>, <<Res("shared", TRUE)>>, <<Res("syn", FALSE), Res("syn", FALSE)>> }

Hint == [kind |-> "hint", query |-> "", n |-> 0, by |-> 0]

Searching == [kind |-> "searching", query |-> "", n |-> 0, by |-> 0]

Found(n, by) == [kind |-> "found", query |-> "", n |-> n, by |-> by]

NotFound(query, by) == [kind |-> "not_found", query |-> query, n |-> 0, by |-> by]

SearchError(by) == [kind |-> "error", query |-> "", n |-> 0, by |-> by]

SearchThread(query, overlapped) ==
    [query |-> query, pc |-> "search", results |-> <<>>, raised |-> FALSE,
     failed |-> FALSE, overlapped |-> overlapped]

PopulateEvent(results, query, t) ==
    [fn |-> "_populate_results", results |-> results, query |-> query, by |-> t]

AppendEvent(results, t) ==
    [fn |-> "_append_results", results |-> results, query |-> "", by |-> t]

StatusEvent(t) == [fn |-> "_set_status", results |-> <<>>, query |-> "", by |-> t]

HandoverNone(results, query, t) == <<>>

\* line 165: Clock.schedule_once(partial(self._populate_results, results, query), 0)
Handover(results, query, t) == <<PopulateEvent(results, query, t)>>

Cards(results, t) == [i \in 1..Len(results) |-> [link |-> results[i].link, of |-> t]]

Links(results) == { results[i].link : i \in 1..Len(results) }

TextLinks(results) == { results[i].link : i \in { j \in 1..Len(results) : results[j].text } }

\* lines 235-256: the results whose link is not yet known, each link once
RECURSIVE Added(_, _)
Added(results, existing) ==
    IF results = <<>> THEN <<>>
    ELSE IF Head(results).link \in existing THEN Added(Tail(results), existing)
    ELSE <<Head(results)>> \o Added(Tail(results), existing \cup {Head(results).link})

\* on_search, lines 147-150
OnSearchEmpty ==
    /\ utoasts < MaxSearches
    /\ utoasts' = utoasts + 1
    /\ UNCHANGED <<ustatus, ulist, upayloads, ucache, uthr, uclock, urun>>

\* on_search, lines 147-153
OnSearch ==
    /\ Len(uthr) < MaxSearches
    /\ \E query \in ScreenQueries :
        uthr' = Append(uthr, SearchThread(query,
                    \E t \in 1..Len(uthr) : uthr[t].pc # "done"))
    /\ ustatus' = Searching
    /\ ulist' = <<>>
    /\ UNCHANGED <<upayloads, ucache, uclock, urun, utoasts>>

\* _perform_search, lines 156-172
PerformSearch(t) ==
    /\ uthr[t].pc = "search"
    /\ \/ \E results \in PrimaryResults(uthr[t].query) :
            /\ uclock' = uclock \o Handover(results, uthr[t].query, t)
            /\ uthr' = [uthr EXCEPT ![t].pc = "enrich", ![t].results = results]
       \/ /\ uclock' = Append(uclock, StatusEvent(t))
          /\ uthr' = [uthr EXCEPT ![t].pc = "done", ![t].raised = TRUE]
    /\ UNCHANGED <<ustatus, ulist, upayloads, ucache, urun, utoasts>>

\* _perform_search, lines 175-180 and 190-193
Enrich(t) ==
    /\ uthr[t].pc = "enrich"
    /\ \E answer \in {"synonyms", "none", "raise"} :
        uthr' = [uthr EXCEPT ![t].pc = IF answer = "synonyms" THEN "synonyms" ELSE "done",
                             ![t].failed = (answer = "raise")]
    /\ UNCHANGED <<ustatus, ulist, upayloads, ucache, uclock, urun, utoasts>>

\* _perform_search, lines 183-193
SynonymSearch(t) ==
    /\ uthr[t].pc = "synonyms"
    /\ \/ \E extra \in ExtraResults :
            /\ uclock' = IF extra # <<>> THEN Append(uclock, AppendEvent(extra, t))
                         ELSE uclock
            /\ uthr' = [uthr EXCEPT ![t].pc = "done"]
       \/ /\ uthr' = [uthr EXCEPT ![t].pc = "done", ![t].failed = TRUE]
          /\ UNCHANGED uclock
    /\ UNCHANGED <<ustatus, ulist, upayloads, ucache, urun, utoasts>>

\* _populate_results, lines 198-228
PopulateResults(ev) ==
    IF ev.results = <<>>
    THEN /\ ustatus' = NotFound(ev.query, ev.by)
         /\ UNCHANGED <<ulist, upayloads, ucache>>
    ELSE /\ ulist' = Cards(ev.results, ev.by)
         /\ ustatus' = Found(Len(ev.results), ev.by)
         /\ upayloads' = upayloads \cup Links(ev.results)
         /\ ucache' = ucache \cup TextLinks(ev.results)

\* _append_results, lines 230-264
AppendResults(ev) ==
    LET added == Added(ev.results, upayloads)
    IN  /\ ulist' = ulist \o Cards(added, ev.by)
        /\ upayloads' = upayloads \cup Links(added)
        /\ ucache' = ucache \cup TextLinks(added)
        /\ ustatus' = IF added # <<>>
                      THEN Found(Cardinality(upayloads \cup Links(added)), ev.by)
                      ELSE ustatus

\* _set_status, lines 195-196
SetStatus(ev) ==
    /\ ustatus' = SearchError(ev.by)
    /\ UNCHANGED <<ulist, upayloads, ucache>>

\* the main thread runs the oldest scheduled callback
ClockRun ==
    /\ uclock # <<>>
    /\ LET ev == Head(uclock)
       IN  CASE ev.fn = "_populate_results" -> PopulateResults(ev)
             [] ev.fn = "_append_results" -> AppendResults(ev)
             [] OTHER -> SetStatus(ev)
    /\ uclock' = Tail(uclock)
    /\ urun' = Append(urun, Head(uclock))
    /\ UNCHANGED <<uthr, utoasts>>

InitScreen ==
    /\ ustatus = Hint
    /\ ulist = <<>>
    /\ upayloads = {}
    /\ ucache = {}
    /\ uthr = <<>>
    /\ uclock = <<>>
    /\ urun = <<>>
    /\ utoasts = 0
    /\ DecodeIdle
    /\ SearchIdle
    /\ FetchIdle
    /\ ExtractIdle
    /\ CacheIdle
    /\ LlmIdle

NextScreen ==
    \/ OnSearchEmpty /\ UNCHANGED <<dvars, svars, fvars, xvars, cvars, lvars>>
    \/ OnSearch /\ UNCHANGED <<dvars, svars, fvars, xvars, cvars, lvars>>
    \/ \E t \in 1..Len(uthr) : PerformSearch(t) /\ UNCHANGED <<dvars, svars, fvars, xvars, cvars, lvars>>
    \/ \E t \in 1..Len(uthr) : Enrich(t) /\ UNCHANGED <<dvars, svars, fvars, xvars, cvars, lvars>>
    \/ \E t \in 1..Len(uthr) : SynonymSearch(t) /\ UNCHANGED <<dvars, svars, fvars, xvars, cvars, lvars>>
    \/ ClockRun /\ UNCHANGED <<dvars, svars, fvars, xvars, cvars, lvars>>

SpecScreen == InitScreen /\ [][NextScreen]_vars

(***************************************************************************)
(* Properties of the search screen.                                        *)
(***************************************************************************)
Scheduled == { uclock[i] : i \in 1..Len(uclock) } \cup { urun[i] : i \in 1..Len(urun) }

\* the enrichment of thread t ends with a failure in this step
EnrichmentFails(t) ==
    /\ uthr[t].pc \in {"enrich", "synonyms"}
    /\ uthr'[t].pc = "done"
    /\ uthr'[t].failed

\* C26: the primary results are handed to the UI, by scheduling
\* _populate_results, before generate_related_keywords is called, and a
\* failure of the enrichment (keywords or synonym searches) schedules nothing
\* and leaves what is displayed unchanged.
C26_EnrichmentNeverBlocks ==
    /\ [](\A t \in 1..Len(uthr) :
            uthr[t].pc \in {"enrich", "synonyms"} =>
                PopulateEvent(uthr[t].results, uthr[t].query, t) \in Scheduled)
    /\ [][ \A t \in 1..Len(uthr) :
             EnrichmentFails(t) => UNCHANGED <<ulist, ustatus, uclock, upayloads, ucache>> ]_vars

\* a search whose enrichment failed, with its primary results on display
C26_Witness ==
    \E t \in 1..Len(uthr) :
        /\ uthr[t].pc = "done"
        /\ uthr[t].failed
        /\ uthr[t].results # <<>>
        /\ uclock = <<>>
        /\ ulist = Cards(uthr[t].results, t)
        /\ ustatus = Found(Len(uthr[t].results), t)

\* both searches are over and every callback has run
ScreenQuiet ==
    /\ Len(uthr) = MaxSearches
    /\ \A t \in 1..Len(uthr) : uthr[t].pc = "done"
    /\ uclock = <<>>

\* C30: when a search is started before the previous one has completed, then
\* whatever the order in which the two threads finish, the list and the status
\* finally displayed are those of the most recent search.
C30_LatestSearchShown ==
    (ScreenQuiet /\ uthr[Len(uthr)].overlapped) =>
        /\ \A i \in 1..Len(ulist) : ulist[i].of = Len(uthr)
        /\ ustatus.by = Len(uthr)

====
